---- MODULE Spec2Model ----
(***************************************************************************)
(* Verification model of gcp-job-runner's deploy/execute engine:           *)
(*   src/cloud/deploy.ts            prepareImage, createOrUpdateJob         *)
(*   src/cloud/execute.ts           execute, handleSignal                   *)
(*   src/cloud/execution-poller.ts  pollExecution, check, scheduleNext      *)
(*   src/cloud/log-streamer.ts      LogStreamer                             *)
(*   src/cloud/types.ts             parseExecution                          *)
(*   src/cloud/run-cloud.ts         runJobFromContainer                     *)
(*   src/cloud/job-name.ts          deriveJobResourceName                   *)
(*   src/cloud/gcloud.ts            waitForDockerDaemon                     *)
(*                                                                         *)
(* One step of the model is one macrotask of the single-threaded event     *)
(* loop (a timer callback, a stream event, a signal delivery) together     *)
(* with the promise continuations (microtasks) it makes runnable.          *)
(***************************************************************************)
EXTENDS Integers, Sequences, FiniteSets, TLC

VARIABLES
    caller,             \* "execute": execute() drives the poller; "direct": pollExecution() is called on its own;
                        \* "deploy": prepareImage() and createOrUpdateJob() are called
    async,              \* options.async of execute()
    hasCallback,        \* options.onStatusChange of pollExecution() is given
    hasSignal,          \* options.signal of pollExecution() is given
    faultLimit,         \* the log-tail failures the environment produces in this run, at most
    argv,               \* options.jobArgv of execute(): a list of strings, each a list of characters
    jobEnv,             \* what gcloud made of the --update-env-vars flag: <<>> or <<result>>
    received,           \* what runJobFromContainer() made of JOB_ARGV: <<>> or <<result>>
    tree,               \* the files under the hashed directory: (relative path, bytes) pairs
    hashed,             \* the last two hashDirectory() calls: tree, enumeration, bytes hashed and tag
    scriptName,         \* the argument of deriveJobResourceName()
    derived,            \* the results of deriveJobResourceName(), of each its predecessor
    delivered,          \* the batches the log tail has delivered, in arrival order
    printed,            \* the entries printEntry() was called for, in call order
    wait,               \* waitForDockerDaemon(): its position, the clock, its deadline and probes
    aborted,            \* signal.aborted
    pc,                 \* where execute() stands
    exits,              \* the process.exit(code) calls made, in order
    commands,           \* the gcloud sub-commands issued so far
    handlerRegistered,  \* process.on("SIGINT", handleSignal) is in force
    sigints,            \* SIGINT deliveries the handler has run for
    consecutiveErrors,  \* pollExecution: let consecutiveErrors
    hasStarted,         \* pollExecution: let hasStarted
    hasReportedStarting,\* pollExecution: let hasReportedStarting
    startedAt,          \* pollExecution: let startedAt
    pollTimer,          \* the setTimeout(check, interval) timers that are pending
    settled,            \* the resolve/reject calls on the poller's promise, in order
    notifications,      \* the statuses check() has emitted through onStatusChange, in order
    failStreak,         \* describe calls that failed since the last one that succeeded
    seenStart,          \* some polled execution carried a startTime
    streamer,           \* the LogStreamer's fields
    conns,              \* the log-tail streams opened so far, each with its status
    streamFaults,       \* log-tail failures so far (stream errors, tailEntries throwing)
    faultStreak,        \* log-tail failures since the last data batch
    stops,              \* the promises returned by LogStreamer.stop(), in call order
    timers,             \* the pending drain and stop-timeout timers, in the order they were set
    dpc,                \* where the deploy stands: prepareImage()'s position, "prepared" once it returned
    met,                \* what prepareImage() met while it settled on a builder: <<>> or <<inputs>>
    buildLocal,         \* prepareImage: let buildLocal
    calls,              \* the tools prepareImage() has invoked and the files it has touched, in order
    dockerfile,         \* the generated Dockerfile is on disk
    imageInRegistry,    \* the registry holds the image of the computed content tag
    prepared,           \* what prepareImage() returned: <<>> or <<result>>
    remoteJob,          \* the Cloud Run Job resource: <<>> or <<job>>
    jobCalls,           \* the gcloud calls of the last createOrUpdateJob() and their success, in order
    reconciled          \* the last two createOrUpdateJob() calls that returned, oldest first

vars == <<caller, async, hasCallback, hasSignal, faultLimit, argv, jobEnv, received,
          tree, hashed, scriptName, derived, delivered, printed, wait,
          aborted, pc, exits, commands,
          handlerRegistered, sigints, consecutiveErrors, hasStarted,
          hasReportedStarting, startedAt, pollTimer, settled, notifications,
          failStreak, seenStart, streamer, conns, streamFaults, faultStreak,
          stops, timers, dpc, met, buildLocal, calls, dockerfile, imageInRegistry,
          prepared, remoteJob, jobCalls, reconciled>>

deployVars == <<dpc, met, buildLocal, calls, dockerfile, imageInRegistry, prepared,
                remoteJob, jobCalls, reconciled>>

pollerVars == <<consecutiveErrors, hasStarted, hasReportedStarting, startedAt,
                pollTimer, settled, notifications, failStreak, seenStart>>

\* The inputs and results of the pure functions.
pureVars == <<argv, jobEnv, received, tree, hashed, scriptName, derived,
              delivered, printed, wait>>

\* The log output and the daemon wait.
toolVars == <<delivered, printed, wait>>

configVars == <<caller, async, hasCallback, hasSignal, faultLimit, pureVars>>

(***************************************************************************)
(* Bounds of the environment                                               *)
(***************************************************************************)
\* SIGINT deliveries in one run
MaxSignals == 2
\* log-tail stream errors and synchronous tailEntries failures in one run
MaxStreamFaults == 1
\* the same, in the runs that follow the log tail to its reconnect cap
MaxTailFaults == 7

(***************************************************************************)
(* Execution responses                                                     *)
(***************************************************************************)
\* succeededCount is absent from the response
NoCount == -1

ConditionTypes == {"Completed", "ResourcesAvailable"}

ConditionStates == {"CONDITION_SUCCEEDED", "CONDITION_FAILED", "CONDITION_RECONCILING"}

\* The conditions of a response: "Completed" in any state, and another type,
\* whose state the poller must not take for the execution's.
Condition ==
    [type : {"Completed"}, state : ConditionStates]
        \cup [type : ConditionTypes \ {"Completed"}, state : {"CONDITION_SUCCEEDED"}]

\* The platform keeps one condition per type.
ConditionLists ==
    {<<>>} \cup {<<c>> : c \in Condition}
           \cup {l \in Condition \X Condition : l[1].type # l[2].type}

GcloudExecution ==
    [startTime : BOOLEAN, completionTime : BOOLEAN,
     succeededCount : {NoCount, 0, 1}, conditions : ConditionLists]

NoFields ==
    [startTime |-> FALSE, completionTime |-> FALSE,
     succeededCount |-> NoCount, conditions |-> <<>>]

\* What gcloudJson gives back: it throws, or returns the parsed JSON, which is no
\* object ("null"), a v1 response (apiVersion and metadata, the fields under
\* status), a flat response with a name, or another object.
GcloudOutcomes ==
    {[kind |-> k, status |-> NoFields] : k \in {"throw", "null", "other"}}
        \cup [kind : {"v1", "flat"}, status : GcloudExecution]

\* The value of parseExecution(response): <<execution>>, or <<>> for undefined.
parseExecution(response) ==
    IF response.kind = "null" THEN <<>>
    ELSE IF response.kind = "v1" THEN
        <<[startTime      |-> response.status.startTime,
           completionTime |-> response.status.completionTime,
           succeededCount |-> response.status.succeededCount,
           conditions     |-> response.status.conditions]>>
    ELSE IF response.kind = "flat" THEN <<response.status>>
    ELSE <<>>

(***************************************************************************)
(* pollExecution                                                           *)
(***************************************************************************)
\* `(execution.succeededCount ?? 0) > 0`
HasSucceededCount(execution) ==
    (IF execution.succeededCount = NoCount THEN 0 ELSE execution.succeededCount) > 0

\* `execution.conditions?.find((c) => c.type === "Completed")`: <<c>>, or <<>>
\* for undefined.
completedCondition(execution) ==
    LET at == {i \in 1..Len(execution.conditions) :
                  execution.conditions[i].type = "Completed"}
    IN  IF at = {} THEN <<>>
        ELSE <<execution.conditions[CHOOSE i \in at : \A j \in at : i <= j]>>

\* Mutant of Outcome: no response is taken for terminal.
OutcomeRunning(execution) == "running"

\* The terminal-state decision of check(): "succeeded" and "failed" resolve the
\* promise, "running" schedules the next poll.
Outcome(execution) ==
    IF execution.completionTime THEN
        IF HasSucceededCount(execution) THEN "succeeded" ELSE "failed"
    ELSE LET c == completedCondition(execution)
         IN  IF c # <<>> /\ c[1].state = "CONDITION_SUCCEEDED" THEN "succeeded"
             ELSE IF c # <<>> /\ c[1].state = "CONDITION_FAILED" THEN "failed"
             ELSE "running"

\* `consecutiveErrors >= 10`
ErrorCapReached(n) == n >= 10

\* The poller's local variables, as one value.
PollerState ==
    [consecutiveErrors   |-> consecutiveErrors,
     hasStarted          |-> hasStarted,
     hasReportedStarting |-> hasReportedStarting,
     startedAt           |-> startedAt]

\* The catch block of check(), entered with the variables as the throw left them.
Catch(p, notes) ==
    LET q == [p EXCEPT !.consecutiveErrors = @ + 1]
    IN  [p |-> q, notes |-> notes, execution |-> <<>>,
         next |-> IF ErrorCapReached(q.consecutiveErrors) THEN "reject" ELSE "schedule"]

\* Mutant of DetectStart: the start is detected but hasStarted is never set.
DetectStartForgetful(p, execution, cb) ==
    IF execution.startTime THEN
        [p     |-> [p EXCEPT !.startedAt = "now"],
         notes |-> <<"Running">>,
         threw |-> FALSE]
    ELSE [p |-> p, notes |-> <<>>, threw |-> FALSE]

\* Mutant of DetectStart: the notice is emitted but hasReportedStarting is
\* never set.
DetectStartRepeating(p, execution, cb) ==
    IF p.hasStarted THEN [p |-> p, notes |-> <<>>, threw |-> FALSE]
    ELSE IF execution.startTime THEN
        [p     |-> [p EXCEPT !.hasStarted = TRUE, !.startedAt = "now"],
         notes |-> <<"Running">>,
         threw |-> FALSE]
    ELSE [p     |-> p,
          notes |-> IF cb THEN <<"Container starting">> ELSE <<>>,
          threw |-> ~cb]

\* The start-detection block of check(): the variables after it, the statuses it
\* emitted, and whether it threw. `onStatusChange?.("Running")` emits with or
\* without a listener; `onStatusChange("Container starting...")` is a TypeError
\* when no callback was given.
DetectStart(p, execution, cb) ==
    IF p.hasStarted THEN [p |-> p, notes |-> <<>>, threw |-> FALSE]
    ELSE IF execution.startTime THEN
        [p     |-> [p EXCEPT !.hasStarted = TRUE, !.startedAt = "now"],
         notes |-> <<"Running">>,
         threw |-> FALSE]
    ELSE IF ~p.hasReportedStarting THEN
        [p     |-> [p EXCEPT !.hasReportedStarting = TRUE],
         notes |-> IF cb THEN <<"Container starting">> ELSE <<>>,
         threw |-> ~cb]
    ELSE [p |-> p, notes |-> <<>>, threw |-> FALSE]

\* Mutant of scheduled: check() sets the next timer whatever it decided.
scheduledAlways(next) == 1

\* The timers one run of check() sets: scheduleNext() is called on the paths
\* that neither resolve nor reject.
scheduled(next) == IF next = "schedule" THEN 1 ELSE 0

\* One run of check() past the abort test, on the outcome of the describe call.
check(p, response, cb) ==
    IF response.kind = "throw" THEN Catch(p, <<>>)
    ELSE
        LET p0 == [p EXCEPT !.consecutiveErrors = 0]
            parsed == parseExecution(response)
        IN  IF parsed = <<>> THEN
                [p |-> p0, notes |-> <<>>, execution |-> <<>>, next |-> "schedule"]
            ELSE
                LET execution == parsed[1]
                    d == DetectStart(p0, execution, cb)
                IN  IF d.threw THEN Catch(d.p, d.notes)
                    ELSE [p |-> d.p, notes |-> d.notes, execution |-> parsed,
                          next |-> IF Outcome(execution) = "running"
                                   THEN "schedule" ELSE "resolve"]

\* The describe call returned an execution that carries a startTime.
CarriesStart(response) ==
    /\ response.kind # "throw"
    /\ parseExecution(response) # <<>>
    /\ parseExecution(response)[1].startTime

(***************************************************************************)
(* LogStreamer                                                             *)
(***************************************************************************)
MAX_RECONNECT_ATTEMPTS == 5

\* `new LogStreamer(options)`: stream 0 is null, otherwise an index into conns;
\* warnings counts the "giving up" warnings the streamer has logged, timeouts
\* the reconnect timeouts that were set and have neither fired nor been cleared.
NewStreamer ==
    [stream |-> 0, stopped |-> FALSE, reconnectTimer |-> FALSE,
     consecutiveFailures |-> 0, warnings |-> 0, timeouts |-> 0]

\* `if (this.reconnectTimer) { clearTimeout(this.reconnectTimer); this.reconnectTimer = null; }`
clearReconnect(s) ==
    [s EXCEPT !.reconnectTimer = FALSE,
              !.timeouts = IF s.reconnectTimer THEN @ - 1 ELSE @]

\* Mutant of scheduleReconnect: a stopped streamer reconnects like a running one.
scheduleReconnectWhenStopped(s) ==
    IF s.reconnectTimer THEN s
    ELSE LET t == [s EXCEPT !.consecutiveFailures = @ + 1]
         IN  IF t.consecutiveFailures > MAX_RECONNECT_ATTEMPTS
             THEN [t EXCEPT !.warnings = @ + 1]
             ELSE [t EXCEPT !.reconnectTimer = TRUE, !.timeouts = @ + 1]

\* scheduleReconnect()
scheduleReconnect(s) ==
    IF s.stopped \/ s.reconnectTimer THEN s
    ELSE LET t == [s EXCEPT !.consecutiveFailures = @ + 1]
         IN  IF t.consecutiveFailures > MAX_RECONNECT_ATTEMPTS
             THEN [t EXCEPT !.warnings = @ + 1]
             ELSE [t EXCEPT !.reconnectTimer = TRUE, !.timeouts = @ + 1]

\* connect(): tailEntries either opens stream number n or throws.
connect(s, opened, n) ==
    IF opened THEN [s EXCEPT !.stream = n] ELSE scheduleReconnect(s)

\* The streams after connect().
connected(cs, opened) == IF opened THEN Append(cs, "open") ELSE cs

\* start()
start(s, opened, n) ==
    connect(clearReconnect([s EXCEPT !.stopped = FALSE, !.consecutiveFailures = 0]),
            opened, n)

\* The fields after stop().
stopFields(s) ==
    [clearReconnect(s) EXCEPT !.stopped = TRUE, !.stream = 0]

\* The promise stop() returns to `by`: resolved at once when no stream is held,
\* otherwise pending on the held stream's "end" and on a 3000 ms timer.
stopPromise(s, by) ==
    [by |-> by, conn |-> s.stream,
     state |-> IF s.stream = 0 THEN "resolved" ELSE "pending"]

\* The streams after stop(): the held stream is asked to end.
stopConns(s, cs) ==
    IF s.stream = 0 THEN cs ELSE [cs EXCEPT ![s.stream] = "ending"]

\* `setTimeout(() => resolve(), 3000)` in stop()
STOP_TIMEOUT == 3000

\* Mutant of stopTimers: stop() sets no safety timeout.
stopTimersWithoutTimeout(s, ts, id) == ts

\* The timers after stop(): its safety timeout is set when a stream is held.
stopTimers(s, ts, id) ==
    IF s.stream = 0 THEN ts
    ELSE Append(ts, [kind |-> "stop", id |-> id, ms |-> STOP_TIMEOUT])

(***************************************************************************)
(* execute                                                                 *)
(***************************************************************************)
LOG_DRAIN_DELAY == 3000

SIGINT_EXIT_CODE == 130

\* Mutant of FinalExitCode: the result is not looked at.
FinalExitCodeIgnoringResult(result) == 0

\* The final exit code of execute(): `if (result.succeeded) process.exit(0)`,
\* else process.exit(1).
FinalExitCode(result) == IF result.succeeded THEN 0 ELSE 1

\* The exit code of the continuation that runs when a stop() promise resolves:
\* handleSignal's exits 130, execute's reports the result.
ContinuationExitCode(by) ==
    IF by = "signal" THEN SIGINT_EXIT_CODE ELSE FinalExitCode(settled[1])

\* Mutant of SignalCommands: the handler cancels the execution it stops watching.
SignalCommandsCancelling == {"jobs executions cancel"}

\* The gcloud sub-commands handleSignal issues: none.
SignalCommands == {}

Alive == exits = <<>>

\* Timer i may fire next: no timer set before it is due sooner or at the same
\* time (a timer set earlier with a delay no longer than i's fires before i).
CanFire(ts, i) == \A j \in 1..(i - 1) : ts[j].ms > ts[i].ms

\* The timers without the i-th.
without(ts, i) == SubSeq(ts, 1, i - 1) \o SubSeq(ts, i + 1, Len(ts))

\* No deploy is part of the run.
deployIdle ==
    /\ dpc = "idle"
    /\ met = <<>>
    /\ buildLocal = FALSE
    /\ calls = <<>>
    /\ dockerfile = FALSE
    /\ imageInRegistry = FALSE
    /\ prepared = <<>>
    /\ remoteJob = <<>>
    /\ jobCalls = <<>>
    /\ reconciled = <<>>

\* waitForDockerDaemon() is not called.
NoWait == [pc |-> "idle", now |-> 0, deadline |-> 0, probes |-> <<>>, result |-> <<>>]

\* No log batch is delivered and the daemon is not waited for.
toolIdle ==
    /\ delivered = <<>>
    /\ printed = <<>>
    /\ wait = NoWait

\* No pure function is part of the run.
pureIdle ==
    /\ argv = <<>>
    /\ jobEnv = <<>>
    /\ received = <<>>
    /\ tree = {}
    /\ hashed = <<>>
    /\ scriptName = <<>>
    /\ derived = <<>>
    /\ toolIdle

pollerIdle ==
    /\ consecutiveErrors = 0
    /\ hasStarted = FALSE
    /\ hasReportedStarting = FALSE
    /\ startedAt = "undefined"
    /\ settled = <<>>
    /\ notifications = <<>>
    /\ failStreak = 0
    /\ seenStart = FALSE

Init ==
    /\ caller \in {"execute", "direct"}
    /\ async \in BOOLEAN
    /\ hasCallback \in BOOLEAN
    /\ hasSignal \in BOOLEAN
    \* execute() passes onStatusChange and no signal to pollExecution()
    /\ caller = "execute" => hasCallback /\ ~hasSignal
    /\ caller = "direct" => ~async
    /\ faultLimit = MaxStreamFaults
    /\ pureIdle
    /\ aborted = FALSE
    /\ pc = IF caller = "execute" THEN "start" ELSE "direct"
    /\ exits = <<>>
    /\ commands = {}
    /\ handlerRegistered = FALSE
    /\ sigints = 0
    /\ pollerIdle
    \* pollExecution() sets the first timer before it returns
    /\ pollTimer = IF caller = "direct" THEN 1 ELSE 0
    /\ streamer = NewStreamer
    /\ conns = <<>>
    /\ streamFaults = 0
    /\ faultStreak = 0
    /\ stops = <<>>
    /\ timers = <<>>
    /\ deployIdle

\* Mutant of LaunchCommand: the flag follows options.async.
LaunchCommandFollowingOption(isAsync) ==
    IF isAsync THEN "jobs execute --async" ELSE "jobs execute --wait"

\* The launch call of execute(): "--async" is always among its arguments.
LaunchCommand(isAsync) == "jobs execute --async"

\* Mutant of returnsEarly: the async option is not looked at.
returnsEarlyNever(isAsync) == FALSE

\* `if (options.async) { ...; return; }` once the execution is accepted.
returnsEarly(isAsync) == isAsync

\* The launch responses: only the shape matters to execute().
LaunchOutcomes == {r \in GcloudOutcomes : r.status = NoFields}

\* execute() up to its first await: the launch, the streamer's start, the
\* handler's registration and the call of pollExecution().
Launch ==
    /\ Alive
    /\ pc = "start"
    /\ \E response \in LaunchOutcomes, opened \in BOOLEAN :
        /\ commands' = commands \cup {LaunchCommand(async)}
        /\ IF response.kind = "throw" THEN
                /\ pc' = "rejected"
                /\ UNCHANGED <<exits, streamer, conns, streamFaults, faultStreak,
                               handlerRegistered, pollTimer>>
           ELSE IF parseExecution(response) = <<>> THEN
                /\ exits' = Append(exits, 1)
                /\ pc' = "exited"
                /\ UNCHANGED <<streamer, conns, streamFaults, faultStreak, handlerRegistered,
                               pollTimer>>
           ELSE IF returnsEarly(async) THEN
                /\ pc' = "returned"
                /\ UNCHANGED <<exits, streamer, conns, streamFaults, faultStreak,
                               handlerRegistered, pollTimer>>
           ELSE
                /\ opened \/ streamFaults < faultLimit
                /\ streamer' = start(streamer, opened, Len(conns) + 1)
                /\ conns' = connected(conns, opened)
                /\ streamFaults' = IF opened THEN streamFaults ELSE streamFaults + 1
                /\ faultStreak' = IF opened THEN faultStreak ELSE faultStreak + 1
                /\ handlerRegistered' = TRUE
                /\ pollTimer' = pollTimer + 1
                /\ pc' = "polling"
                /\ UNCHANGED exits
    /\ UNCHANGED <<deployVars, configVars, aborted, sigints, consecutiveErrors, hasStarted,
                   hasReportedStarting, startedAt, settled, notifications,
                   failStreak, seenStart, stops, timers>>

\* Mutant of signalAborted: check() does not look at the signal.
signalAbortedNever == FALSE

\* `signal?.aborted`, as check() reads it when it starts.
signalAborted == hasSignal /\ aborted

\* The poll timer fires with the signal aborted: check() rejects, issues no call.
PollAborted ==
    /\ Alive
    /\ pollTimer > 0
    /\ signalAborted
    /\ pollTimer' = pollTimer - 1
    /\ settled' = Append(settled, [kind |-> "reject", reason |-> "AbortError"])
    /\ UNCHANGED <<deployVars, configVars, aborted, pc, exits, commands, handlerRegistered,
                   sigints, consecutiveErrors, hasStarted, hasReportedStarting,
                   startedAt, notifications, failStreak, seenStart, streamer,
                   conns, streamFaults, faultStreak, stops, timers>>

\* The poll timer fires and the describe call has the given outcome: check()
\* acts on it; when it settles the promise, execute() goes on from its await.
PollStep(response) ==
    LET r == check(PollerState, response, hasCallback)
    IN  /\ Alive
        /\ pollTimer > 0
        /\ ~signalAborted
        /\ commands' = commands \cup {"jobs executions describe"}
        /\ consecutiveErrors' = r.p.consecutiveErrors
        /\ hasStarted' = r.p.hasStarted
        /\ hasReportedStarting' = r.p.hasReportedStarting
        /\ startedAt' = r.p.startedAt
        /\ notifications' = notifications \o r.notes
        /\ failStreak' = IF response.kind = "throw" THEN failStreak + 1 ELSE 0
        /\ seenStart' = (seenStart \/ CarriesStart(response))
        /\ pollTimer' = pollTimer - 1 + scheduled(r.next)
        /\ settled' =
            IF r.next = "resolve" THEN
                Append(settled,
                       [kind       |-> "resolve",
                        succeeded  |-> Outcome(r.execution[1]) = "succeeded",
                        execution  |-> r.execution[1],
                        startedAt  |-> r.p.startedAt])
            ELSE IF r.next = "reject" THEN
                Append(settled, [kind |-> "reject", reason |-> "errors"])
            ELSE settled
        /\ IF caller = "execute" /\ r.next = "resolve" THEN
                \* `await new Promise((resolve) => setTimeout(resolve, LOG_DRAIN_DELAY))`
                /\ pc' = "draining"
                /\ timers' = Append(timers, [kind |-> "drain", id |-> 0,
                                             ms |-> LOG_DRAIN_DELAY])
                /\ UNCHANGED handlerRegistered
           ELSE IF caller = "execute" /\ r.next = "reject" THEN
                \* the finally block, then execute() rejects
                /\ pc' = "rejected"
                /\ handlerRegistered' = FALSE
                /\ UNCHANGED timers
           ELSE UNCHANGED <<pc, handlerRegistered, timers>>
        /\ UNCHANGED <<deployVars, configVars, aborted, exits, sigints, streamer, conns,
                       streamFaults, faultStreak, stops>>

PollCheck == \E response \in GcloudOutcomes : PollStep(response)

\* The caller of pollExecution() aborts its signal.
Abort ==
    /\ caller = "direct"
    /\ hasSignal
    /\ ~aborted
    /\ aborted' = TRUE
    /\ UNCHANGED <<deployVars, configVars, pc, exits, commands, handlerRegistered, sigints,
                   pollerVars, streamer, conns, streamFaults, faultStreak, stops, timers>>

\* The continuation of a resolved stop() promise runs: the process exits.
exitAfterStop(by) ==
    /\ exits' = Append(exits, ContinuationExitCode(by))
    /\ pc' = "exited"

\* Mutant of HandleSignal: the handler calls streamer.stop() and exits without
\* waiting for the returned promise.
HandleSignalWithoutAwait ==
    /\ Alive
    /\ handlerRegistered
    /\ sigints < MaxSignals
    /\ sigints' = sigints + 1
    /\ commands' = commands \cup SignalCommands
    /\ stops' = Append(stops, stopPromise(streamer, "signal"))
    /\ conns' = stopConns(streamer, conns)
    /\ timers' = stopTimers(streamer, timers, Len(stops) + 1)
    /\ streamer' = stopFields(streamer)
    /\ exitAfterStop("signal")
    /\ UNCHANGED <<deployVars, configVars, aborted, handlerRegistered, pollerVars, streamFaults, faultStreak>>

\* SIGINT is delivered: handleSignal calls streamer.stop() and exits once the
\* returned promise has resolved.
HandleSignal ==
    /\ Alive
    /\ handlerRegistered
    /\ sigints < MaxSignals
    /\ sigints' = sigints + 1
    /\ commands' = commands \cup SignalCommands
    /\ LET promise == stopPromise(streamer, "signal")
       IN  /\ stops' = Append(stops, promise)
           /\ conns' = stopConns(streamer, conns)
           /\ timers' = stopTimers(streamer, timers, Len(stops) + 1)
           /\ streamer' = stopFields(streamer)
           /\ IF promise.state = "resolved" THEN exitAfterStop("signal")
              ELSE UNCHANGED <<pc, exits>>
    /\ UNCHANGED <<deployVars, configVars, aborted, handlerRegistered, pollerVars, streamFaults, faultStreak>>

\* Mutant of DrainElapsed: execute() calls streamer.stop() without awaiting it.
DrainElapsedWithoutAwait ==
    /\ Alive
    /\ pc = "draining"
    /\ \E i \in 1..Len(timers) :
        /\ timers[i].kind = "drain"
        /\ CanFire(timers, i)
        /\ stops' = Append(stops, stopPromise(streamer, "main"))
        /\ conns' = stopConns(streamer, conns)
        /\ timers' = stopTimers(streamer, without(timers, i), Len(stops) + 1)
        /\ streamer' = stopFields(streamer)
        /\ exitAfterStop("main")
    /\ UNCHANGED <<deployVars, configVars, aborted, commands, handlerRegistered, sigints,
                   pollerVars, streamFaults, faultStreak>>

\* The drain delay elapses: execute() calls `await streamer.stop()` and, once
\* that promise has resolved, reports the result and exits.
DrainElapsed ==
    /\ Alive
    /\ pc = "draining"
    /\ \E i \in 1..Len(timers) :
        /\ timers[i].kind = "drain"
        /\ CanFire(timers, i)
        /\ LET promise == stopPromise(streamer, "main")
           IN  /\ stops' = Append(stops, promise)
               /\ conns' = stopConns(streamer, conns)
               /\ timers' = stopTimers(streamer, without(timers, i), Len(stops) + 1)
               /\ streamer' = stopFields(streamer)
               /\ IF promise.state = "resolved" THEN exitAfterStop("main")
                  ELSE pc' = "stopping" /\ UNCHANGED exits
    /\ UNCHANGED <<deployVars, configVars, aborted, commands, handlerRegistered, sigints,
                   pollerVars, streamFaults, faultStreak>>

\* The safety timeout of a stop() promise fires and resolves it.
StopTimeout ==
    /\ Alive
    /\ \E i \in 1..Len(timers) :
        /\ timers[i].kind = "stop"
        /\ CanFire(timers, i)
        /\ stops[timers[i].id].state = "pending"
        /\ stops' = [stops EXCEPT ![timers[i].id].state = "resolved"]
        /\ timers' = without(timers, i)
        /\ exitAfterStop(stops[timers[i].id].by)
    /\ UNCHANGED <<deployVars, configVars, aborted, commands, handlerRegistered, sigints,
                   pollerVars, streamer, conns, streamFaults, faultStreak>>

\* The stop() promises that wait on the "end" of stream c.
waiting(c) == {k \in 1..Len(stops) : stops[k].conn = c /\ stops[k].state = "pending"}

\* A stream that was asked to end reports "end": the listeners of stop() clear
\* their timeouts and resolve; the first resolved promise's continuation runs.
StreamEnd ==
    /\ Alive
    /\ \E c \in 1..Len(conns) :
        /\ conns[c] = "ending"
        /\ conns' = [conns EXCEPT ![c] = "closed"]
        /\ stops' = [k \in 1..Len(stops) |->
                        IF k \in waiting(c) THEN [stops[k] EXCEPT !.state = "resolved"]
                        ELSE stops[k]]
        /\ timers' = SelectSeq(timers,
                               LAMBDA t : ~(t.kind = "stop" /\ t.id \in waiting(c)))
        /\ IF waiting(c) = {} THEN UNCHANGED <<pc, exits>>
           ELSE exitAfterStop(stops[CHOOSE k \in waiting(c) :
                                        \A m \in waiting(c) : k <= m].by)
    /\ UNCHANGED <<deployVars, configVars, aborted, commands, handlerRegistered, sigints,
                   pollerVars, streamer, streamFaults, faultStreak>>

\* Mutant of StreamError: the handler lets the error end the process.
StreamErrorFatal ==
    /\ Alive
    /\ streamFaults < faultLimit
    /\ \E c \in 1..Len(conns) :
        /\ conns[c] \in {"open", "ending"}
        /\ conns' = [conns EXCEPT ![c] = "errored"]
        /\ streamer' = scheduleReconnect([streamer EXCEPT !.stream = 0])
    /\ streamFaults' = streamFaults + 1
    /\ faultStreak' = faultStreak + 1
    /\ exits' = Append(exits, 1)
    /\ pc' = "exited"
    /\ UNCHANGED <<deployVars, configVars, aborted, commands, handlerRegistered,
                   sigints, pollerVars, stops, timers>>

\* Mutant of StreamError: the handler keeps the failed stream.
StreamErrorKeepingStream ==
    /\ Alive
    /\ streamFaults < faultLimit
    /\ \E c \in 1..Len(conns) :
        /\ conns[c] \in {"open", "ending"}
        /\ conns' = [conns EXCEPT ![c] = "errored"]
        /\ streamer' = scheduleReconnect(streamer)
    /\ streamFaults' = streamFaults + 1
    /\ faultStreak' = faultStreak + 1
    /\ UNCHANGED <<deployVars, configVars, aborted, pc, exits, commands, handlerRegistered,
                   sigints, pollerVars, stops, timers>>

\* A live stream emits "error": the handler set in connect() drops the stream
\* and schedules a reconnect. An errored stream never reports "end".
StreamError ==
    /\ Alive
    /\ streamFaults < faultLimit
    /\ \E c \in 1..Len(conns) :
        /\ conns[c] \in {"open", "ending"}
        /\ conns' = [conns EXCEPT ![c] = "errored"]
        /\ streamer' = scheduleReconnect([streamer EXCEPT !.stream = 0])
    /\ streamFaults' = streamFaults + 1
    /\ faultStreak' = faultStreak + 1
    /\ UNCHANGED <<deployVars, configVars, aborted, pc, exits, commands, handlerRegistered,
                   sigints, pollerVars, stops, timers>>

\* A live stream delivers a batch: the handler set in connect() resets the
\* failure count (and prints the batch).
StreamData ==
    /\ Alive
    /\ \E c \in 1..Len(conns) : conns[c] \in {"open", "ending"}
    /\ streamer' = [streamer EXCEPT !.consecutiveFailures = 0]
    /\ faultStreak' = 0
    /\ UNCHANGED <<deployVars, configVars, aborted, pc, exits, commands, handlerRegistered,
                   sigints, pollerVars, conns, streamFaults, stops, timers>>

\* The reconnect timer fires.
Reconnect ==
    /\ Alive
    /\ streamer.timeouts > 0
    /\ \E opened \in BOOLEAN :
        /\ opened \/ streamFaults < faultLimit
        /\ LET s == [streamer EXCEPT !.reconnectTimer = FALSE, !.timeouts = @ - 1]
           IN  IF s.stopped THEN
                    /\ streamer' = s
                    /\ UNCHANGED <<conns, streamFaults, faultStreak>>
               ELSE /\ streamer' = connect(s, opened, Len(conns) + 1)
                    /\ conns' = connected(conns, opened)
                    /\ streamFaults' = IF opened THEN streamFaults
                                       ELSE streamFaults + 1
                    /\ faultStreak' = IF opened THEN faultStreak
                                      ELSE faultStreak + 1
    /\ UNCHANGED <<deployVars, configVars, aborted, pc, exits, commands, handlerRegistered,
                   sigints, pollerVars, stops, timers>>

Next ==
    \/ Launch
    \/ PollAborted
    \/ PollCheck
    \/ Abort
    \/ HandleSignal
    \/ DrainElapsed
    \/ StopTimeout
    \/ StreamEnd
    \/ StreamError
    \/ StreamData
    \/ Reconnect

Spec == Init /\ [][Next]_vars

\* Timers fire: a pending drain delay elapses and a pending stop timeout runs
\* unless it is cleared first. Nothing obliges a stream to report its end.
LiveSpec == Spec /\ WF_vars(DrainElapsed) /\ WF_vars(StopTimeout)

\* pollExecution() is called on its own.
PollInit == Init /\ caller = "direct"

PollNext ==
    \/ PollAborted
    \/ PollCheck
    \/ Abort

PollSpec == PollInit /\ [][PollNext]_vars

\* The poll timers fire: a pending setTimeout(check, interval) runs check().
PollLiveSpec == PollSpec /\ WF_vars(PollCheck \/ PollAborted)

\* A non-async execute() whose log tail may fail often enough to use up the
\* reconnect attempts.
TailInit ==
    /\ caller = "execute"
    /\ async = FALSE
    /\ hasCallback = TRUE
    /\ hasSignal = FALSE
    /\ faultLimit = MaxTailFaults
    /\ pureIdle
    /\ aborted = FALSE
    /\ pc = "start"
    /\ exits = <<>>
    /\ commands = {}
    /\ handlerRegistered = FALSE
    /\ sigints = 0
    /\ pollerIdle
    /\ pollTimer = 0
    /\ streamer = NewStreamer
    /\ conns = <<>>
    /\ streamFaults = 0
    /\ faultStreak = 0
    /\ stops = <<>>
    /\ timers = <<>>
    /\ deployIdle

\* The describe outcomes of these runs: a failed call, and v1 responses that
\* decide by completionTime and succeededCount.
TailOutcomes ==
    {r \in GcloudOutcomes :
        r.kind = "throw" \/ (r.kind = "v1" /\ r.status.conditions = <<>>)}

TailPollCheck == \E response \in TailOutcomes : PollStep(response)

\* The uninterrupted runs.
TailNext ==
    \/ Launch
    \/ TailPollCheck
    \/ DrainElapsed
    \/ StopTimeout
    \/ StreamEnd
    \/ StreamError
    \/ StreamData
    \/ Reconnect

TailSpec == TailInit /\ [][TailNext]_vars

(***************************************************************************)
(* prepareImage                                                            *)
(***************************************************************************)
\* Everything of the run but the process.exit calls.
runFrame == <<configVars, aborted, pc, commands, handlerRegistered, sigints,
              pollerVars, streamer, conns, streamFaults, faultStreak, stops, timers>>

\* What prepareImage() meets while it settles on a builder: gcloud is
\* available, cloud.buildLocal is not false, docker is installed, its daemon
\* runs, stdin is a TTY, the operator's answer to the prompt, startDockerDaemon()
\* succeeds, waitForDockerDaemon() reports the daemon ready.
BuilderInputs ==
    [gcloud : BOOLEAN, requested : BOOLEAN, installed : BOOLEAN,
     running : BOOLEAN, tty : BOOLEAN,
     choice : {"start", "cloud-build", "cancel"},
     started : BOOLEAN, ready : BOOLEAN]

\* Mutant of isTTY: every context counts as interactive.
isTTYAlways(in) == TRUE

\* `process.stdin.isTTY`
isTTY(in) == in.tty

\* Mutant of cancelled: a cancelled prompt is an answer like any other.
cancelledNever(choice) == FALSE

\* `typeof choice === "symbol"`: the operator cancelled the prompt.
cancelled(choice) == choice = "cancel"

\* Mutant of daemonReady: a daemon that was started counts as ready.
daemonReadyAssumed(in) == TRUE

\* `const ready = await waitForDockerDaemon()`
daemonReady(in) == in.ready

\* prepareImage() up to the isolate step: the value of buildLocal, the probes
\* made and the process.exit call, if any.
chooseBuilder(in) ==
    LET probes == <<"gcloud --version", "docker --version", "docker info",
                    "prompt", "start docker", "wait for docker">>
        to(n, local, exit) ==
            [buildLocal |-> local, calls |-> SubSeq(probes, 1, n), exit |-> exit]
    IN  IF ~in.gcloud THEN to(1, in.requested, <<1>>)
        ELSE IF ~in.requested THEN to(1, FALSE, <<>>)
        ELSE IF ~in.installed THEN to(2, FALSE, <<>>)
        ELSE IF in.running THEN to(3, TRUE, <<>>)
        ELSE IF ~isTTY(in) THEN to(3, FALSE, <<>>)
        ELSE IF cancelled(in.choice) THEN to(4, TRUE, <<0>>)
        ELSE IF in.choice # "start" THEN to(4, FALSE, <<>>)
        ELSE IF ~in.started THEN to(5, FALSE, <<>>)
        ELSE to(6, daemonReady(in), <<>>)

\* Mutant of needsBuild: the registry's answer is not looked at.
needsBuildAlways(found) == TRUE

\* `if (imageExists) ... else` build: a build is needed when checkImageExists()
\* did not find the image.
needsBuild(found) == ~found

\* The build tools and the descriptor writes.
BuildCalls == {"write Dockerfile", "docker build", "docker push", "builds submit"}

\* Mutant of build: a failed local build goes on to Cloud Build.
buildFallingBack(local, buildOk, pushOk) ==
    IF local /\ ~buildOk THEN
        [calls |-> <<"write Dockerfile", "docker build", "builds submit",
                     "unlink Dockerfile">>,
         exit |-> <<>>, dockerfile |-> FALSE, imageBuilt |-> TRUE]
    ELSE IF local THEN
        [calls |-> <<"write Dockerfile", "docker build", "configure-docker",
                     "docker push", "unlink Dockerfile">>,
         exit |-> IF pushOk THEN <<>> ELSE <<1>>,
         dockerfile |-> FALSE, imageBuilt |-> pushOk]
    ELSE
        [calls |-> <<"write Dockerfile", "builds submit", "unlink Dockerfile">>,
         exit |-> IF buildOk THEN <<>> ELSE <<1>>,
         dockerfile |-> FALSE, imageBuilt |-> buildOk]

\* The build step of prepareImage(), local or with Cloud Build: the calls made,
\* the process.exit call if any, whether the Dockerfile is left on disk, and
\* imageBuilt. process.exit() ends the process where it is called: the finally
\* block that unlinks the Dockerfile runs only when the try block completes.
build(local, buildOk, pushOk) ==
    IF local THEN
        IF ~buildOk THEN
            [calls |-> <<"write Dockerfile", "docker build">>,
             exit |-> <<1>>, dockerfile |-> TRUE, imageBuilt |-> FALSE]
        ELSE IF ~pushOk THEN
            [calls |-> <<"write Dockerfile", "docker build", "configure-docker",
                         "docker push">>,
             exit |-> <<1>>, dockerfile |-> TRUE, imageBuilt |-> FALSE]
        ELSE
            [calls |-> <<"write Dockerfile", "docker build", "configure-docker",
                         "docker push", "unlink Dockerfile">>,
             exit |-> <<>>, dockerfile |-> FALSE, imageBuilt |-> TRUE]
    ELSE
        IF ~buildOk THEN
            [calls |-> <<"write Dockerfile", "builds submit">>,
             exit |-> <<1>>, dockerfile |-> TRUE, imageBuilt |-> FALSE]
        ELSE
            [calls |-> <<"write Dockerfile", "builds submit", "unlink Dockerfile">>,
             exit |-> <<>>, dockerfile |-> FALSE, imageBuilt |-> TRUE]

\* prepareImage() from its entry to the isolate step.
ChooseBuilder ==
    /\ Alive
    /\ dpc = "prepare"
    /\ \E in \in BuilderInputs :
        LET r == chooseBuilder(in)
        IN  /\ met' = <<in>>
            /\ buildLocal' = r.buildLocal
            /\ calls' = calls \o r.calls
            /\ exits' = exits \o r.exit
            /\ dpc' = IF r.exit = <<>> THEN "isolate" ELSE "exited"
    /\ UNCHANGED <<runFrame, dockerfile, imageInRegistry, prepared, remoteJob,
                   jobCalls, reconciled>>

\* The isolate step, the content hash and checkImageExists(): the registry
\* query finds the image only if it is there, and counts as not found when it
\* fails.
IsolateAndCheck(isolateOk, found) ==
    /\ Alive
    /\ dpc = "isolate"
    /\ found => imageInRegistry
    /\ IF ~isolateOk THEN
            /\ calls' = calls \o <<"isolate">>
            /\ exits' = Append(exits, 1)
            /\ dpc' = "exited"
            /\ UNCHANGED prepared
       ELSE /\ calls' = calls \o <<"isolate", "hash", "images describe">>
            /\ UNCHANGED exits
            /\ IF needsBuild(found) THEN dpc' = "build" /\ UNCHANGED prepared
               ELSE /\ dpc' = "prepared"
                    /\ prepared' = <<[imageBuilt |-> FALSE]>>
    /\ UNCHANGED <<runFrame, met, buildLocal, dockerfile, imageInRegistry, remoteJob,
                   jobCalls, reconciled>>

Isolate == \E isolateOk, found \in BOOLEAN : IsolateAndCheck(isolateOk, found)

\* The build step and the return of prepareImage().
BuildStep(buildOk, pushOk) ==
    LET r == build(buildLocal, buildOk, pushOk)
    IN  /\ Alive
        /\ dpc = "build"
        /\ calls' = calls \o r.calls
        /\ exits' = exits \o r.exit
        /\ dockerfile' = r.dockerfile
        /\ imageInRegistry' = (imageInRegistry \/ r.imageBuilt)
        /\ IF r.exit = <<>> THEN
                /\ dpc' = "prepared"
                /\ prepared' = <<[imageBuilt |-> r.imageBuilt]>>
           ELSE dpc' = "exited" /\ UNCHANGED prepared
        /\ UNCHANGED <<runFrame, met, buildLocal, remoteJob, jobCalls, reconciled>>

BuildImage == \E buildOk, pushOk \in BOOLEAN : BuildStep(buildOk, pushOk)

(***************************************************************************)
(* createOrUpdateJob                                                       *)
(***************************************************************************)
\* A numeric option that is not configured (undefined)
NoValue == -1

DEFAULT_MEMORY == "512Mi"

DEFAULT_CPU == "1"

DEFAULT_TIMEOUT == 86400

DEFAULT_PARALLELISM == 0

\* The configurations createOrUpdateJob() is called with: envConfig.env and
\* envConfig.secrets, cloud.resources (its memory, cpu and timeout are given
\* or left out together here) and cloud.serviceAccount ("" when not given).
JobSpecs ==
    {spec \in [env : {{}, {"API_URL"}},
               memory : {"undefined", "1Gi"}, cpu : {"undefined", "2"},
               timeout : {NoValue, 600}, parallelism : {NoValue, 3},
               secrets : {{}, {"API_KEY"}},
               serviceAccount : {"", "runner-sa"}] :
        /\ (spec.memory = "undefined") <=> (spec.cpu = "undefined")
        /\ (spec.memory = "undefined") <=> (spec.timeout = NoValue)}

\* The image prepareImage() returned the URI of.
CurrentImage == "current"

\* The values the flags that create and update always pass are built from.
baseValues(spec, image) ==
    [image    |-> image,
     env      |-> {"GOOGLE_CLOUD_PROJECT"} \cup spec.env,
     memory   |-> IF spec.memory = "undefined" THEN DEFAULT_MEMORY ELSE spec.memory,
     cpu      |-> IF spec.cpu = "undefined" THEN DEFAULT_CPU ELSE spec.cpu,
     timeout  |-> IF spec.timeout = NoValue THEN DEFAULT_TIMEOUT ELSE spec.timeout,
     maxRetries |-> 0,
     secrets  |-> spec.secrets,
     serviceAccount |-> spec.serviceAccount]

BaseFlags == {"image", "env", "memory", "cpu", "timeout", "maxRetries"}

\* `if (secretsString)` and `if (cloud.serviceAccount)`: the flags passed only
\* for a configured value.
optionalFlags(spec) ==
    (IF spec.secrets # {} THEN {"secrets"} ELSE {})
        \cup (IF spec.serviceAccount # "" THEN {"serviceAccount"} ELSE {})

\* updateArgs: the fields the update call sets, and to what.
updateArgs(spec, image) ==
    [flags |-> BaseFlags \cup {"parallelism"} \cup optionalFlags(spec),
     value |-> [f \in {"parallelism"} |->
                    IF spec.parallelism = NoValue THEN DEFAULT_PARALLELISM
                    ELSE spec.parallelism] @@ baseValues(spec, image)]

\* createArgs: the fields the create call sets, and to what.
createArgs(spec, image) ==
    [flags |-> BaseFlags
                 \cup (IF spec.parallelism # NoValue THEN {"parallelism"} ELSE {})
                 \cup optionalFlags(spec),
     value |-> [f \in {"parallelism"} |-> spec.parallelism] @@ baseValues(spec, image)]

\* A job as the platform creates it when no flag says otherwise; create and
\* update pass every other field.
PlatformDefaults ==
    [image |-> "", env |-> {}, memory |-> DEFAULT_MEMORY, cpu |-> DEFAULT_CPU,
     timeout |-> 600, maxRetries |-> 3, parallelism |-> DEFAULT_PARALLELISM,
     secrets |-> {}, serviceAccount |-> "default"]

\* A job deployed from an earlier configuration.
StaleJob ==
    [image |-> "old", env |-> {"GOOGLE_CLOUD_PROJECT", "OLD_FLAG"},
     memory |-> "2Gi", cpu |-> "4", timeout |-> 60, maxRetries |-> 0,
     parallelism |-> 5, secrets |-> {"OLD_KEY"}, serviceAccount |-> "old-sa"]

\* The job after gcloud has applied the flags of a create or update call: a
\* field with a flag takes the flag's value, a field without keeps its own.
apply(job, args) ==
    LET pick(f) == IF f \in args.flags THEN args.value[f] ELSE job[f]
    IN  [image |-> pick("image"), env |-> pick("env"), memory |-> pick("memory"),
         cpu |-> pick("cpu"), timeout |-> pick("timeout"),
         maxRetries |-> pick("maxRetries"), parallelism |-> pick("parallelism"),
         secrets |-> pick("secrets"), serviceAccount |-> pick("serviceAccount")]

\* Mutant of existing: the describe result is not looked at.
existingNever(found) == FALSE

\* `if (existingJob)`: the describe call returned the job.
existing(found) == found

\* Mutant of UpdateReturns: the update path reports a creation.
UpdateReturnsCreated == TRUE

\* `return false` at the end of the update path.
UpdateReturns == FALSE

\* One createOrUpdateJob(): the gcloud calls made, each with whether it
\* succeeded (the describe call: returned the job), the process.exit call if
\* any, the value returned and the job afterwards.
reconcile(job, spec, image, found, ok) ==
    IF existing(found) THEN
        [calls   |-> <<[cmd |-> "jobs describe", ok |-> found],
                       [cmd |-> "jobs update", ok |-> ok]>>,
         exit    |-> IF ok THEN <<>> ELSE <<1>>,
         created |-> UpdateReturns,
         job     |-> IF ok /\ job # <<>> THEN <<apply(job[1], updateArgs(spec, image))>>
                     ELSE job]
    ELSE
        [calls   |-> <<[cmd |-> "jobs describe", ok |-> found],
                       [cmd |-> "jobs create", ok |-> ok]>>,
         exit    |-> IF ok THEN <<>> ELSE <<1>>,
         created |-> TRUE,
         job     |-> IF ok THEN <<apply(PlatformDefaults, createArgs(spec, image))>>
                     ELSE job]

\* The last n elements of a sequence.
last(seq, n) == IF Len(seq) <= n THEN seq ELSE SubSeq(seq, Len(seq) - n + 1, Len(seq))

\* createOrUpdateJob() is called for the prepared image. The describe call
\* finds the job only if it exists (and counts as not found when it fails);
\* the platform refuses to create a job that exists.
Reconcile(spec, found, ok) ==
    LET r == reconcile(remoteJob, spec, CurrentImage, found, ok)
    IN  /\ Alive
        /\ dpc = "prepared"
        /\ found => remoteJob # <<>>
        /\ (~found /\ remoteJob # <<>>) => ~ok
        /\ jobCalls' = r.calls
        /\ exits' = exits \o r.exit
        /\ remoteJob' = r.job
        /\ IF r.exit = <<>> THEN
                /\ reconciled' = last(Append(reconciled,
                                              [spec |-> spec, found |-> found,
                                               created |-> r.created,
                                               after |-> r.job]), 2)
                /\ UNCHANGED dpc
           ELSE dpc' = "exited" /\ UNCHANGED reconciled
        /\ UNCHANGED <<runFrame, met, buildLocal, calls, dockerfile, imageInRegistry,
                       prepared>>

CreateOrUpdateJob ==
    \E spec \in JobSpecs, found, ok \in BOOLEAN : Reconcile(spec, found, ok)

\* The run variables when `who` is called and no execution is started.
engineIdle(who) ==
    /\ caller = who
    /\ async = FALSE
    /\ hasCallback = TRUE
    /\ hasSignal = FALSE
    /\ faultLimit = 0
    /\ aborted = FALSE
    /\ pc = "start"
    /\ exits = <<>>
    /\ commands = {}
    /\ handlerRegistered = FALSE
    /\ sigints = 0
    /\ pollerIdle
    /\ pollTimer = 0
    /\ streamer = NewStreamer
    /\ conns = <<>>
    /\ streamFaults = 0
    /\ faultStreak = 0
    /\ stops = <<>>
    /\ timers = <<>>

\* The run variables of a deploy, which starts no execution.
runIdle == engineIdle("deploy") /\ pureIdle

\* prepareImage() is called, against a registry that holds the image of the
\* content tag or not.
DeployInit ==
    /\ runIdle
    /\ dpc = "prepare"
    /\ met = <<>>
    /\ buildLocal = FALSE
    /\ calls = <<>>
    /\ dockerfile = FALSE
    /\ imageInRegistry \in BOOLEAN
    /\ prepared = <<>>
    /\ remoteJob \in {<<>>, <<StaleJob>>}
    /\ jobCalls = <<>>
    /\ reconciled = <<>>

DeployNext ==
    \/ ChooseBuilder
    \/ Isolate
    \/ BuildImage

DeploySpec == DeployInit /\ [][DeployNext]_vars

\* createOrUpdateJob() is called any number of times for a prepared image, in
\* a project where the job is absent or was deployed before.
ReconcileInit ==
    /\ runIdle
    /\ dpc = "prepared"
    /\ met = <<>>
    /\ buildLocal = FALSE
    /\ calls = <<>>
    /\ dockerfile = FALSE
    /\ imageInRegistry = TRUE
    /\ prepared \in {<<[imageBuilt |-> b]>> : b \in BOOLEAN}
    /\ remoteJob \in {<<>>, <<StaleJob>>}
    /\ jobCalls = <<>>
    /\ reconciled = <<>>

ReconcileNext == CreateOrUpdateJob

ReconcileSpec == ReconcileInit /\ [][ReconcileNext]_vars

(***************************************************************************)
(* handleCloudRun                                                          *)
(***************************************************************************)
\* handleCloudRun() between deployIfChanged() and execute(): the job name is
\* derived (which throws for a script name without a letter) and
\* createOrUpdateJob() is called for the image, built or found.
EnsureJobWith(named, spec, found, ok) ==
    LET r == reconcile(remoteJob, spec, CurrentImage, found, ok)
    IN  /\ Alive
        /\ caller = "cloud run"
        /\ dpc = "prepared"
        /\ found => remoteJob # <<>>
        /\ (~found /\ remoteJob # <<>>) => ~ok
        /\ IF ~named THEN
                /\ dpc' = "rejected"
                /\ UNCHANGED <<jobCalls, exits, remoteJob, reconciled>>
           ELSE /\ jobCalls' = r.calls
                /\ exits' = exits \o r.exit
                /\ remoteJob' = r.job
                /\ dpc' = IF r.exit = <<>> THEN "ensured" ELSE "exited"
                /\ reconciled' =
                      IF r.exit = <<>>
                      THEN last(Append(reconciled,
                                       [spec |-> spec, found |-> found,
                                        created |-> r.created, after |-> r.job]), 2)
                      ELSE reconciled
        /\ UNCHANGED <<runFrame, met, buildLocal, calls, dockerfile, imageInRegistry,
                       prepared>>

EnsureJob ==
    \E named, found, ok \in BOOLEAN, spec \in JobSpecs :
        EnsureJobWith(named, spec, found, ok)

\* `await execute(...)` of handleCloudRun(), up to its first await.
CloudExecute ==
    /\ caller = "cloud run"
    /\ dpc = "ensured"
    /\ Launch

\* `cloud run` is called, with or without --async, in a project where the job
\* is absent or was deployed before.
CloudRunInit ==
    /\ caller = "cloud run"
    /\ async \in BOOLEAN
    /\ hasCallback = TRUE
    /\ hasSignal = FALSE
    /\ faultLimit = 0
    /\ pureIdle
    /\ aborted = FALSE
    /\ pc = "start"
    /\ exits = <<>>
    /\ commands = {}
    /\ handlerRegistered = FALSE
    /\ sigints = 0
    /\ pollerIdle
    /\ pollTimer = 0
    /\ streamer = NewStreamer
    /\ conns = <<>>
    /\ streamFaults = 0
    /\ faultStreak = 0
    /\ stops = <<>>
    /\ timers = <<>>
    /\ dpc = "prepare"
    /\ met = <<>>
    /\ buildLocal = FALSE
    /\ calls = <<>>
    /\ dockerfile = FALSE
    /\ imageInRegistry \in BOOLEAN
    /\ prepared = <<>>
    /\ remoteJob \in {<<>>, <<StaleJob>>}
    /\ jobCalls = <<>>
    /\ reconciled = <<>>

\* handleCloudRun() from deployIfChanged() to the launch of the execution.
CloudRunNext ==
    \/ ChooseBuilder
    \/ Isolate
    \/ BuildImage
    \/ EnsureJob
    \/ CloudExecute

CloudRunSpec == CloudRunInit /\ [][CloudRunNext]_vars

(***************************************************************************)
(* The JOB_ARGV channel: execute() to runJobFromContainer()                *)
(***************************************************************************)
\* arguments in one argument vector
MaxArgs == 2
\* characters in one argument
MaxArgLen == 2

\* The characters of an argument: a letter, the characters of the flag's
\* syntax, and the two characters JSON escapes in a string.
ArgChars == {"a", "|", "=", "\"", "\\"}

\* The sequences over S of length at most n.
UpTo(S, n) == UNION {[1..k -> S] : k \in 0..n}

Argvs == UpTo(UpTo(ArgChars, MaxArgLen), MaxArgs)

\* The concatenation of the sequences in a sequence.
RECURSIVE flatten(_)
flatten(seqs) == IF seqs = <<>> THEN <<>> ELSE Head(seqs) \o flatten(Tail(seqs))

\* JSON.stringify of a string: quoted, with `"` and `\` escaped by a backslash.
quote(str) ==
    <<"\"">> \o flatten([i \in 1..Len(str) |->
                            IF str[i] \in {"\"", "\\"} THEN <<"\\", str[i]>>
                            ELSE <<str[i]>>]) \o <<"\"">>

\* `JSON.stringify(jobArgv)`: the quoted elements between brackets, with commas.
stringify(list) ==
    <<"[">> \o flatten([i \in 1..Len(list) |->
                          (IF i = 1 THEN <<>> ELSE <<",">>) \o quote(list[i])])
            \o <<"]">>

\* The environment variable's name, one symbol of the flag.
JOB_ARGV == "JOB_ARGV"

\* The value of the flag `--update-env-vars=^||^JOB_ARGV=${jobArgvJson}`.
updateEnvVars(list) == <<"^", "|", "|", "^", JOB_ARGV, "=">> \o stringify(list)

\* The position of the first x in s at or after i, 0 when there is none.
RECURSIVE indexOf(_, _, _)
indexOf(s, x, i) ==
    IF i > Len(s) THEN 0 ELSE IF s[i] = x THEN i ELSE indexOf(s, x, i + 1)

\* s holds d at position i.
holds(s, d, i) == i + Len(d) - 1 <= Len(s) /\ SubSeq(s, i, i + Len(d) - 1) = d

\* s split at every occurrence of the delimiter d, read from position i with
\* the piece `cur` begun.
RECURSIVE split(_, _, _, _)
split(s, d, i, cur) ==
    IF i > Len(s) THEN <<cur>>
    ELSE IF holds(s, d, i) THEN <<cur>> \o split(s, d, i + Len(d), <<>>)
    ELSE split(s, d, i + 1, Append(cur, s[i]))

\* The pieces gcloud takes a dict flag's value apart into: a value that starts
\* with ^DELIM^ is split at DELIM, any other at the commas; a delimiter at the
\* end ends the last piece.
pieces(value) ==
    LET close == IF value # <<>> /\ value[1] = "^" THEN indexOf(value, "^", 2) ELSE 0
        d     == IF close > 2 THEN SubSeq(value, 2, close - 1) ELSE <<",">>
        rest  == IF close > 2 THEN SubSeq(value, close + 1, Len(value)) ELSE value
        all   == split(rest, d, 1, <<>>)
    IN  IF rest = <<>> THEN <<>>
        ELSE IF all[Len(all)] = <<>> THEN SubSeq(all, 1, Len(all) - 1)
        ELSE all

\* What gcloud makes of the flag: it refuses a piece that has no "=" or no
\* key before it, otherwise each piece is a variable, its value what follows
\* the first "=".
readEnvVars(value) ==
    LET ps == pieces(value)
        eq(i) == indexOf(ps[i], "=", 1)
    IN  IF \E i \in 1..Len(ps) : eq(i) <= 1 THEN [accepted |-> FALSE, vars |-> <<>>]
        ELSE [accepted |-> TRUE,
              vars |-> [i \in 1..Len(ps) |->
                          [key   |-> SubSeq(ps[i], 1, eq(i) - 1),
                           value |-> SubSeq(ps[i], eq(i) + 1, Len(ps[i]))]]]

\* `process.env.JOB_ARGV` in the container: <<value>>, or <<>> for undefined.
envJobArgv(env) ==
    LET at == {i \in 1..Len(env) : env[i].key = <<JOB_ARGV>>}
    IN  IF at = {} THEN <<>> ELSE <<env[CHOOSE i \in at : \A j \in at : j <= i].value>>

SyntaxError == [ok |-> FALSE, value |-> <<>>, next |-> 0]

\* JSON.parse of a string literal whose opening quote precedes position i.
RECURSIVE parseString(_, _, _)
parseString(s, i, acc) ==
    IF i > Len(s) THEN SyntaxError
    ELSE IF s[i] = "\"" THEN [ok |-> TRUE, value |-> acc, next |-> i + 1]
    ELSE IF s[i] = "\\" THEN
        IF i + 1 <= Len(s) /\ s[i + 1] \in {"\"", "\\"}
        THEN parseString(s, i + 2, Append(acc, s[i + 1]))
        ELSE SyntaxError
    ELSE parseString(s, i + 1, Append(acc, s[i]))

\* JSON.parse of the elements of an array of strings, from the element that
\* starts at position i.
RECURSIVE parseElements(_, _, _)
parseElements(s, i, acc) ==
    IF i > Len(s) \/ s[i] # "\"" THEN SyntaxError
    ELSE LET r == parseString(s, i + 1, <<>>)
         IN  IF ~r.ok \/ r.next > Len(s) THEN SyntaxError
             ELSE IF s[r.next] = "," THEN parseElements(s, r.next + 1, Append(acc, r.value))
             ELSE IF s[r.next] = "]" /\ r.next = Len(s)
                  THEN [ok |-> TRUE, value |-> Append(acc, r.value), next |-> r.next + 1]
             ELSE SyntaxError

\* `JSON.parse(jobArgv) as string[]`
parse(s) ==
    IF s = <<"[", "]">> THEN [ok |-> TRUE, value |-> <<>>, next |-> 3]
    ELSE IF s # <<>> /\ s[1] = "[" THEN parseElements(s, 2, <<>>)
    ELSE SyntaxError

\* runJobFromContainer() up to runJob(): whether it threw, and the arguments
\* that follow the first two of process.argv (none to begin with).
runJobFromContainer(env) ==
    LET jobArgv == envJobArgv(env)
    IN  IF jobArgv = <<>> \/ jobArgv[1] = <<>> THEN [threw |-> FALSE, argv |-> <<>>]
        ELSE LET r == parse(jobArgv[1])
             IN  [threw |-> ~r.ok, argv |-> r.value]

\* The launch call of execute() as gcloud reads its --update-env-vars flag.
LaunchArgv ==
    /\ caller = "launch"
    /\ jobEnv = <<>>
    /\ jobEnv' = <<readEnvVars(updateEnvVars(argv))>>
    /\ UNCHANGED <<caller, async, hasCallback, hasSignal, faultLimit, argv, received,
                   tree, hashed, scriptName, derived, toolVars, aborted, pc, exits, commands,
                   handlerRegistered, sigints, pollerVars, streamer, conns,
                   streamFaults, faultStreak, stops, timers, deployVars>>

\* The container of the accepted execution starts.
ContainerStart ==
    /\ caller = "launch"
    /\ jobEnv # <<>>
    /\ jobEnv[1].accepted
    /\ received = <<>>
    /\ received' = <<runJobFromContainer(jobEnv[1].vars)>>
    /\ UNCHANGED <<caller, async, hasCallback, hasSignal, faultLimit, argv, jobEnv,
                   tree, hashed, scriptName, derived, toolVars, aborted, pc, exits, commands,
                   handlerRegistered, sigints, pollerVars, streamer, conns,
                   streamFaults, faultStreak, stops, timers, deployVars>>

\* execute() is called with an argument vector.
ArgvInit ==
    /\ engineIdle("launch")
    /\ deployIdle
    /\ argv \in Argvs
    /\ jobEnv = <<>>
    /\ received = <<>>
    /\ tree = {}
    /\ hashed = <<>>
    /\ scriptName = <<>>
    /\ derived = <<>>
    /\ toolIdle

ArgvNext ==
    \/ LaunchArgv
    \/ ContainerStart

ArgvSpec == ArgvInit /\ [][ArgvNext]_vars

(***************************************************************************)
(* hashDirectory                                                           *)
(***************************************************************************)
\* files under the hashed directory
MaxFiles == 2

\* The relative paths of the files, "a/b" among them, and their contents.
Paths == {<<"a">>, <<"b">>, <<"a", "a">>, <<"a", "b">>, <<"a", "/", "b">>}

Contents == {<<>>, <<"b">>}

\* The character is a byte of the same value in a path and in a file.
Code(c) == CASE c = "/" -> 47 [] c = "a" -> 97 [] c = "b" -> 98

\* The directory trees: a path names one file, and a file is no directory.
Trees ==
    {t \in SUBSET [path : Paths, bytes : Contents] :
        /\ Cardinality(t) <= MaxFiles
        /\ \A f, g \in t : f.path = g.path => f = g
        /\ \A f, g \in t : ~holds(g.path, f.path \o <<"/">>, 1)}

\* What getFilesRecursive() can return for a tree: its files' paths in the
\* order the directories were enumerated in.
RECURSIVE orders(_)
orders(S) ==
    IF S = {} THEN {<<>>}
    ELSE UNION {{<<x>> \o rest : rest \in orders(S \ {x})} : x \in S}

listings(t) == orders({f.path : f \in t})

\* `p < q` of two strings: by the first code unit that differs, a proper
\* prefix first.
RECURSIVE precedes(_, _)
precedes(p, q) ==
    IF q = <<>> THEN FALSE
    ELSE IF p = <<>> THEN TRUE
    ELSE IF Head(p) # Head(q) THEN Code(Head(p)) < Code(Head(q))
    ELSE precedes(Tail(p), Tail(q))

\* x put into the ascending list s.
RECURSIVE insert(_, _)
insert(x, s) ==
    IF s = <<>> THEN <<x>>
    ELSE IF precedes(x, Head(s)) THEN <<x>> \o s
    ELSE <<Head(s)>> \o insert(x, Tail(s))

\* Mutant of sort: the files are hashed in the order they were enumerated in.
sortKeepingOrder(list) == list

\* `files.sort()`
RECURSIVE sort(_)
sort(list) == IF list = <<>> THEN <<>> ELSE insert(Head(list), sort(Tail(list)))

\* `await readFile(file)`
readFile(t, path) == (CHOOSE f \in t : f.path = path).bytes

\* The bytes fed to the hash: of every file the relative path, then the
\* file's bytes.
updates(t, files) ==
    flatten([i \in 1..Len(files) |-> files[i] \o readFile(t, files[i])])

RECURSIVE weigh(_, _)
weigh(bytes, k) ==
    IF bytes = <<>> THEN 0 ELSE Code(Head(bytes)) * k + weigh(Tail(bytes), k + 1)

HexDigits ==
    <<"0", "1", "2", "3", "4", "5", "6", "7", "8", "9", "a", "b", "c", "d", "e", "f">>

\* `hash.digest("hex")`: 64 hexadecimal digits. The digits stand in for
\* SHA-256's, of which they keep that they are a function of the bytes fed to
\* the hash, in the order they were fed.
digestHex(bytes) ==
    LET w == weigh(bytes, 1)
        m == weigh(bytes, 0) + Len(bytes)
    IN  [i \in 1..64 |-> HexDigits[((w + i * m) % 16) + 1]]

\* hashDirectory() on the tree, enumerated in the given order: the bytes fed
\* to the hash and the tag.
hashDirectory(t, listing) ==
    LET stream == updates(t, sort(listing))
    IN  [tree |-> t, listing |-> listing, stream |-> stream,
         tag |-> SubSeq(digestHex(stream), 1, 12)]

\* The frame of the actions on the hashed directory.
hashFrame == <<caller, async, hasCallback, hasSignal, faultLimit, argv, jobEnv, received,
               scriptName, derived, toolVars, aborted, pc, exits, commands,
               handlerRegistered, sigints, pollerVars, streamer, conns,
               streamFaults, faultStreak, stops, timers, deployVars>>

\* hashDirectory() is called and returns.
HashDirectory ==
    /\ caller = "hash"
    /\ \E listing \in listings(tree) :
          hashed' = last(Append(hashed, hashDirectory(tree, listing)), 2)
    /\ UNCHANGED <<hashFrame, tree>>

\* The sources change between two calls.
Edit ==
    /\ caller = "hash"
    /\ Len(hashed) = 1
    /\ hashed[1].tree = tree
    /\ tree' \in Trees \ {tree}
    /\ UNCHANGED <<hashFrame, hashed>>

HashInit ==
    /\ engineIdle("hash")
    /\ deployIdle
    /\ argv = <<>>
    /\ jobEnv = <<>>
    /\ received = <<>>
    /\ tree \in Trees
    /\ hashed = <<>>
    /\ scriptName = <<>>
    /\ derived = <<>>
    /\ toolIdle

HashNext ==
    \/ HashDirectory
    \/ Edit

HashSpec == HashInit /\ [][HashNext]_vars

(***************************************************************************)
(* deriveJobResourceName                                                   *)
(***************************************************************************)
MAX_JOB_NAME_LENGTH == 63

\* characters of a script name before and after its run of letters
MaxAffix == 2

\* The characters of a script name: a lowercase and an uppercase letter, a
\* digit, the hyphen, the slash, and a character no job name may hold.
NameChars == {"a", "B", "1", "-", "/", "_"}

Letters == {"a", "b"}

Digits == {"1"}

\* n times the letter a.
run(n) == [i \in 1..n |-> "a"]

\* The script names: short ones, and ones that a run of letters brings up to
\* the length limit and past it.
ScriptNames ==
    {before \o run(n) \o after :
        before \in UpTo(NameChars, MaxAffix), after \in UpTo(NameChars, MaxAffix),
        n \in {0, MAX_JOB_NAME_LENGTH - MaxAffix}}

\* `.replace(/\//g, "-")`
replaceSlashes(name) == [i \in 1..Len(name) |-> IF name[i] = "/" THEN "-" ELSE name[i]]

\* `.toLowerCase()`
toLowerCase(name) == [i \in 1..Len(name) |-> IF name[i] = "B" THEN "b" ELSE name[i]]

\* `.replace(/[^a-z0-9-]/g, "")`
stripInvalid(name) == SelectSeq(name, LAMBDA c : c \in Letters \cup Digits \cup {"-"})

\* `.replace(/-{2,}/g, "-")`: of every run of hyphens the first is kept.
collapse(name) ==
    LET marked == [i \in 1..Len(name) |->
                      IF i > 1 /\ name[i] = "-" /\ name[i - 1] = "-" THEN "" ELSE name[i]]
    IN  SelectSeq(marked, LAMBDA c : c # "")

\* Mutant of stripLeading: only leading hyphens are removed.
stripLeadingHyphens(name) ==
    LET at == {i \in 1..Len(name) : name[i] # "-"}
    IN  IF at = {} THEN <<>>
        ELSE SubSeq(name, CHOOSE i \in at : \A j \in at : i <= j, Len(name))

\* `.replace(/^[^a-z]+/, "")`
stripLeading(name) ==
    LET at == {i \in 1..Len(name) : name[i] \in Letters}
    IN  IF at = {} THEN <<>>
        ELSE SubSeq(name, CHOOSE i \in at : \A j \in at : i <= j, Len(name))

\* `.replace(/-+$/, "")`
stripTrailing(name) ==
    LET at == {i \in 1..Len(name) : name[i] # "-"}
    IN  IF at = {} THEN <<>>
        ELSE SubSeq(name, 1, CHOOSE i \in at : \A j \in at : j <= i)

\* `name.slice(0, MAX_JOB_NAME_LENGTH).replace(/-+$/, "")` for a name over the limit
truncate(name) ==
    IF Len(name) > MAX_JOB_NAME_LENGTH
    THEN stripTrailing(SubSeq(name, 1, MAX_JOB_NAME_LENGTH))
    ELSE name

\* deriveJobResourceName(scriptName): whether it threw, and the name returned.
deriveJobResourceName(name) ==
    LET sanitized ==
            stripTrailing(stripLeading(
                collapse(stripInvalid(toLowerCase(replaceSlashes(name))))))
        result == truncate(sanitized)
    IN  IF Len(result) = 0 THEN [threw |-> TRUE, name |-> <<>>]
        ELSE [threw |-> FALSE, name |-> result]

\* The frame of the actions on the script name.
nameFrame == <<caller, async, hasCallback, hasSignal, faultLimit, argv, jobEnv, received,
               tree, hashed, scriptName, toolVars, aborted, pc, exits, commands,
               handlerRegistered, sigints, pollerVars, streamer, conns,
               streamFaults, faultStreak, stops, timers, deployVars>>

\* deriveJobResourceName() is called on the script name.
Derive ==
    /\ caller = "name"
    /\ derived = <<>>
    /\ derived' = <<deriveJobResourceName(scriptName)>>
    /\ UNCHANGED nameFrame

\* deriveJobResourceName() is called on the name it returned.
DeriveAgain ==
    /\ caller = "name"
    /\ Len(derived) = 1
    /\ ~derived[1].threw
    /\ derived' = Append(derived, deriveJobResourceName(derived[1].name))
    /\ UNCHANGED nameFrame

NameInit ==
    /\ engineIdle("name")
    /\ deployIdle
    /\ argv = <<>>
    /\ jobEnv = <<>>
    /\ received = <<>>
    /\ tree = {}
    /\ hashed = <<>>
    /\ scriptName \in ScriptNames
    /\ derived = <<>>
    /\ toolIdle

NameNext ==
    \/ Derive
    \/ DeriveAgain

NameSpec == NameInit /\ [][NameNext]_vars

(***************************************************************************)
(* LogStreamer: the data handler                                           *)
(***************************************************************************)
\* batches delivered on one connection
MaxBatches == 2
\* entries in one batch
MaxEntries == 3

\* The seconds of the timestamps, counted from a second of the present time:
\* for every second from 2006-07-14 to 2043-01-25 the product seconds * 1e9
\* lies between 2^60 and 2^61.
Seconds == {0, 1}

Nanos == {0, 100, 999999900}

\* `entry.metadata.timestamp` in its { seconds, nanos } form
Timestamps == [seconds : Seconds, nanos : Nanos]

\* `response.entries`
Batches == UNION {[1..n -> Timestamps] : n \in 0..MaxEntries}

\* The distance of neighbouring double-precision numbers between 2^60 and 2^61.
ULP == 256

\* The double nearest to the integer x, ties to the even one; x is counted
\* from the epoch second's nanoseconds, a multiple of 2 * ULP.
toDouble(x) ==
    LET q == x \div ULP
        r == x % ULP
    IN  IF 2 * r < ULP THEN q * ULP
        ELSE IF 2 * r > ULP THEN (q + 1) * ULP
        ELSE IF q % 2 = 0 THEN q * ULP
        ELSE (q + 1) * ULP

\* `seconds * 1e9 + nanos`, in double-precision arithmetic: the product is
\* exact, the sum is rounded.
getTimestampNanos(timestamp) ==
    toDouble(timestamp.seconds * 1000000000 + timestamp.nanos)

\* The difference of two doubles has the sign of the exact difference.
compareEntryTimestamps(a, b) == getTimestampNanos(a) - getTimestampNanos(b)

\* `[...entries].sort(compareEntryTimestamps)`: the positions of the batch in
\* sorted order. Array.prototype.sort is stable: entries that compare equal
\* keep their order.
sorted(entries) ==
    LET n == Len(entries)
        before(j, i) ==
            \/ compareEntryTimestamps(entries[j], entries[i]) < 0
            \/ compareEntryTimestamps(entries[j], entries[i]) = 0 /\ j < i
        rank(i) == Cardinality({j \in 1..n : before(j, i)}) + 1
    IN  [k \in 1..n |-> CHOOSE i \in 1..n : rank(i) = k]

\* The frame of the actions on the log tail alone.
tailFrame == <<caller, async, hasCallback, hasSignal, faultLimit, argv, jobEnv, received,
               tree, hashed, scriptName, derived, wait, aborted, exits, commands,
               handlerRegistered, sigints, pollerVars, streamFaults, faultStreak,
               stops, timers, deployVars>>

\* start() opens the log-tail connection.
StartTail ==
    /\ caller = "tail"
    /\ pc = "start"
    /\ streamer' = start(streamer, TRUE, Len(conns) + 1)
    /\ conns' = connected(conns, TRUE)
    /\ pc' = "tailing"
    /\ UNCHANGED <<tailFrame, delivered, printed>>

\* The connection delivers a batch: the data handler resets the failure count,
\* sorts a copy of the entries and prints them one by one.
Deliver ==
    /\ caller = "tail"
    /\ pc = "tailing"
    /\ Len(delivered) < MaxBatches
    /\ \E entries \in Batches :
        /\ delivered' = Append(delivered, entries)
        /\ printed' = printed \o [k \in 1..Len(entries) |->
                                     [batch |-> Len(delivered) + 1,
                                      at    |-> sorted(entries)[k]]]
    /\ streamer' = [streamer EXCEPT !.consecutiveFailures = 0]
    /\ UNCHANGED <<tailFrame, conns, pc>>

LogInit ==
    /\ engineIdle("tail")
    /\ deployIdle
    /\ pureIdle

LogNext ==
    \/ StartTail
    \/ Deliver

LogSpec == LogInit /\ [][LogNext]_vars

(***************************************************************************)
(* waitForDockerDaemon                                                     *)
(***************************************************************************)
\* `timeoutMs = 30_000`
timeoutMs == 30000

\* `intervalMs = 2_000`
intervalMs == 2000

\* The seconds by which one round of the loop may exceed the interval: the
\* timer fires late, the probe takes its time.
MaxLate == 2

Lateness == {1000 * k : k \in 0..MaxLate}

\* Mutant of beforeDeadline: the loop does not look at the clock.
beforeDeadlineAlways(now, deadline) == TRUE

\* `Date.now() < deadline`
beforeDeadline(now, deadline) == now < deadline

\* The frame of the actions of the wait.
waitFrame == <<caller, async, hasCallback, hasSignal, faultLimit, argv, jobEnv, received,
               tree, hashed, scriptName, derived, delivered, printed, aborted, pc,
               exits, commands, handlerRegistered, sigints, pollerVars, streamer,
               conns, streamFaults, faultStreak, stops, timers, deployVars>>

\* `if (isDockerDaemonRunning()) return true;` and, if the daemon does not
\* answer, `const deadline = Date.now() + timeoutMs`. The clock is read from
\* that moment on.
WaitEntry ==
    /\ wait.pc = "entry"
    /\ \E ok \in BOOLEAN :
        wait' = IF ok THEN [wait EXCEPT !.pc = "returned", !.probes = <<TRUE>>,
                                        !.result = <<TRUE>>]
                ELSE [wait EXCEPT !.pc = "loop", !.probes = <<FALSE>>,
                                  !.deadline = wait.now + timeoutMs]
    /\ UNCHANGED waitFrame

\* One round of the loop: the clock is before the deadline, the interval is
\* slept through, docker info is run and either succeeds or fails.
WaitProbe ==
    /\ wait.pc = "loop"
    /\ beforeDeadline(wait.now, wait.deadline)
    /\ \E late \in Lateness, ok \in BOOLEAN :
        wait' = [wait EXCEPT !.now = @ + intervalMs + late,
                             !.probes = Append(@, ok),
                             !.pc = IF ok THEN "returned" ELSE "loop",
                             !.result = IF ok THEN <<TRUE>> ELSE <<>>]
    /\ UNCHANGED waitFrame

\* The loop ends at the deadline: `return false`.
WaitTimedOut ==
    /\ wait.pc = "loop"
    /\ ~beforeDeadline(wait.now, wait.deadline)
    /\ wait' = [wait EXCEPT !.pc = "returned", !.result = <<FALSE>>]
    /\ UNCHANGED waitFrame

WaitInit ==
    /\ engineIdle("wait")
    /\ deployIdle
    /\ argv = <<>>
    /\ jobEnv = <<>>
    /\ received = <<>>
    /\ tree = {}
    /\ hashed = <<>>
    /\ scriptName = <<>>
    /\ derived = <<>>
    /\ delivered = <<>>
    /\ printed = <<>>
    /\ wait = [NoWait EXCEPT !.pc = "entry"]

WaitNext ==
    \/ WaitEntry
    \/ WaitProbe
    \/ WaitTimedOut

WaitSpec == WaitInit /\ [][WaitNext]_vars

\* The timer of each round fires and every docker info call returns.
WaitLiveSpec == WaitSpec /\ WF_vars(WaitNext)

(***************************************************************************)
(* Claims                                                                  *)
(***************************************************************************)
\* The poller's promise resolved with a result.
Resolved == settled # <<>> /\ settled[1].kind = "resolve"

Exited == exits # <<>>

\* C1: in a non-async execute-and-wait call with no interrupt, once the poller
\* has resolved, the process exits with 0 only for succeeded=true and with 1
\* only for succeeded=false, and with no other code.
C1_ExitCodeFollowsResult ==
    (caller = "execute" /\ ~async /\ sigints = 0 /\ Resolved /\ Exited) =>
        /\ exits[1] \in {0, 1}
        /\ exits[1] = 0 <=> settled[1].succeeded
        /\ exits[1] = 1 <=> ~settled[1].succeeded

\* C1 witness: an uninterrupted call has exited 1 for a failed execution.
C1_Witness ==
    /\ caller = "execute" /\ ~async /\ sigints = 0
    /\ Resolved /\ ~settled[1].succeeded
    /\ exits = <<1>>

\* C2: once an interrupt was delivered to the registered handler, the process
\* exits with 130 and never with 0 or 1.
C2_InterruptExits130 ==
    (sigints > 0 /\ Exited) => exits[1] = SIGINT_EXIT_CODE

\* C3: after the handler has observed an interrupt, no describe call is issued.
C3_NoPollAfterInterrupt ==
    [][sigints > 0 => ~PollCheck]_vars

\* C4: on every path the only gcloud commands that touch the execution are its
\* start and its describe: nothing cancels, deletes or updates it.
C4_ExecutionOnlyStartedAndDescribed ==
    commands \subseteq {"jobs execute --async", "jobs executions describe"}

\* C4 witness: the process was interrupted while watching a started execution
\* and has exited; the execution was started and polled.
C4_Witness ==
    /\ exits = <<SIGINT_EXIT_CODE>>
    /\ commands = {"jobs execute --async", "jobs executions describe"}

\* The execution a describe outcome parses to carries a success signal: a
\* completion time with a positive succeededCount, or a "Completed" condition
\* in state CONDITION_SUCCEEDED.
SuccessSignal(e) ==
    \/ e.completionTime /\ e.succeededCount > 0
    \/ \E i \in 1..Len(e.conditions) :
          e.conditions[i] = [type |-> "Completed", state |-> "CONDITION_SUCCEEDED"]

\* The "Completed" condition of the execution is in state CONDITION_FAILED.
FailedCondition(e) ==
    \E i \in 1..Len(e.conditions) :
        e.conditions[i] = [type |-> "Completed", state |-> "CONDITION_FAILED"]

\* The describe outcomes that return an execution.
Executions == {r \in GcloudOutcomes : r.kind # "throw" /\ parseExecution(r) # <<>>}

\* This step settles the poller's promise by resolving it with `succeeded`.
ResolvesWith(succeeded) ==
    /\ Len(settled') = Len(settled) + 1
    /\ settled'[Len(settled')].kind = "resolve"
    /\ settled'[Len(settled')].succeeded = succeeded

\* C5: whenever the poller resolves on a response that carries either success
\* signal, it resolves with succeeded=true, whatever the other fields are.
C5_EitherSuccessSignalResolvesTrue ==
    Resolved /\ SuccessSignal(settled[1].execution) => settled[1].succeeded

\* C6: a poll whose response has its "Completed" condition in CONDITION_FAILED
\* and no completionTime resolves the poller with succeeded=false, and the
\* poller never resolves succeeded=true on a response without a success signal.
C6_FailedConditionResolvesFalse ==
    /\ [][\A r \in {x \in Executions :
                      /\ FailedCondition(parseExecution(x)[1])
                      /\ ~parseExecution(x)[1].completionTime} :
             PollStep(r) => ResolvesWith(FALSE)]_vars
    /\ [](Resolved /\ settled[1].succeeded => SuccessSignal(settled[1].execution))

\* The number of "Running" notifications emitted so far.
RunningCount == Cardinality({i \in 1..Len(notifications) : notifications[i] = "Running"})

\* This step emits the "Running" notification.
EmitsRunning ==
    /\ Len(notifications') > Len(notifications)
    /\ notifications'[Len(notifications')] = "Running"

RejectedForErrors == settled # <<>> /\ settled[1] = [kind |-> "reject", reason |-> "errors"]

\* C8: the poller rejects with a polling error exactly when 10 describe calls
\* have failed in a row: never on fewer, and a successful describe restarts
\* the count.
C8_RejectsExactlyOnTenFailures ==
    RejectedForErrors <=> failStreak >= 10

\* C9: every poll whose describe call succeeds ends with the error counter at
\* 0, whatever the response and the configuration; an empty response is not
\* counted as an error and schedules another poll.
C9_SuccessfulDescribeResetsCounter ==
    [][\A r \in {x \in GcloudOutcomes : x.kind # "throw"} :
          PollStep(r) =>
              /\ consecutiveErrors' = 0
              /\ parseExecution(r) = <<>> => pollTimer' = 1 /\ settled' = settled]_vars

\* The stop() calls one run can make: one per interrupt and execute()'s own.
StopCalls == 1..(MaxSignals + 1)

Pending(k) == IF k \in DOMAIN stops THEN stops[k].state = "pending" ELSE FALSE

\* Stop promise k is over: it resolved, or the process exited before it could.
Over(k) == IF k \in DOMAIN stops THEN Exited \/ stops[k].state = "resolved" ELSE FALSE

\* Stop promise k goes from pending to resolved in this step.
Resolves(k) == Pending(k) /\ stops'[k].state = "resolved"

\* C10: every stop() call resolves: at once when no stream is held, otherwise
\* when the stream reports its end or when the 3-second timer fires, whichever
\* comes first, even if the stream never ends or errors while closing. (A
\* promise is also done with when the process exits first.)
C10_StopResolves ==
    /\ [](\A k \in DOMAIN stops : stops[k].conn = 0 => stops[k].state = "resolved")
    /\ [][\A k \in StopCalls : Resolves(k) =>
            \/ conns[stops[k].conn] = "ending" /\ conns'[stops[k].conn] = "closed"
            \/ \E i \in 1..Len(timers) :
                  /\ timers[i] = [kind |-> "stop", id |-> k, ms |-> STOP_TIMEOUT]
                  /\ CanFire(timers, i)
                  /\ timers' = without(timers, i)]_vars
    /\ \A k \in StopCalls : Pending(k) ~> Over(k)

\* C10 witness: a stop() promise was resolved by its timeout after the stream
\* it waited on had errored while closing.
C10_Witness ==
    \E k \in DOMAIN stops :
        /\ stops[k].state = "resolved"
        /\ stops[k].conn # 0
        /\ conns[stops[k].conn] = "errored"

\* C11: after 5 consecutive stream errors with no data batch in between, the
\* streamer has no reconnect scheduled, opens no connection any more, and has
\* logged the "giving up" warning exactly once.
C11_FiveErrorsStopReconnecting ==
    /\ [](faultStreak >= 5 /\ ~streamer.stopped =>
            ~streamer.reconnectTimer /\ streamer.warnings = 1)
    /\ [][faultStreak >= 5 => Len(conns') = Len(conns)]_vars
    /\ [](streamer.warnings <= 1)

\* execute() ended at a failed launch: it exited 1 before it started anything.
LaunchFailed ==
    /\ settled = <<>>
    /\ exits = <<1>>
    /\ conns = <<>>

\* C12: log-stream errors, the exhausted reconnect cap included, leave the
\* tracking alone: a stream event changes neither the poller nor where
\* execute() stands, a poll stays scheduled while execute() awaits the poller,
\* and the exit code is the one the poll result alone decides.
C12_StreamErrorsLeaveTrackingAlone ==
    /\ [][StreamError \/ Reconnect \/ StreamData =>
            UNCHANGED <<pollerVars, pc, exits, commands, handlerRegistered>>]_vars
    /\ [](pc = "polling" => pollTimer = 1)
    /\ [](Exited => LaunchFailed
                     \/ (Resolved /\ exits = <<FinalExitCode(settled[1])>>))

\* C12 witness: the log tail gave up after using up its reconnect attempts and
\* the run still exited 0 for a succeeded execution.
C12_Witness ==
    /\ streamer.warnings = 1
    /\ streamFaults > MAX_RECONNECT_ATTEMPTS
    /\ Resolved /\ settled[1].succeeded
    /\ exits = <<0>>

\* execute() started its LogStreamer.
StreamerStarted == conns # <<>> \/ streamFaults > 0

\* C13: when a non-async execute() that started its streamer has ended (by
\* exiting or by rejecting), stop() has been called: no log-tail connection is
\* open and no reconnect timer is pending.
C13_StreamerStoppedOnEveryPath ==
    (caller = "execute" /\ pc \in {"exited", "rejected"} /\ StreamerStarted) =>
        /\ stops # <<>>
        /\ streamer.stopped
        /\ \A c \in 1..Len(conns) : conns[c] # "open"
        /\ ~streamer.reconnectTimer

\* C20: the launch always issues the execute call with the asynchronous flag,
\* whatever options.async is, and a launch whose response yields no execution
\* exits 1 with no streamer, no poller and no interrupt handler started.
C20_LaunchIsAsyncAndFailsFast ==
    /\ [][Launch => commands' = commands \cup {"jobs execute --async"}]_vars
    /\ [][Launch /\ pc' = "exited" =>
            /\ exits' = <<1>>
            /\ streamer' = NewStreamer /\ conns' = <<>> /\ streamFaults' = 0
            /\ pollTimer' = 0 /\ settled' = <<>>
            /\ ~handlerRegistered']_vars
    /\ [](caller = "execute" /\ commands # {} => "jobs execute --async" \in commands)

\* C20 witness: a launch without the async option got a response with no
\* execution in it and exited 1, having issued only the asynchronous start.
C20_Witness ==
    /\ caller = "execute" /\ ~async
    /\ pc = "exited" /\ exits = <<1>>
    /\ commands = {"jobs execute --async"}
    /\ settled = <<>> /\ ~handlerRegistered /\ pollTimer = 0

\* The tool or file operation was part of the prepareImage() call.
Called(c) == \E i \in 1..Len(calls) : calls[i] = c

C15_DescriptorRemoved ==
    dpc \in {"prepared", "exited"} => ~dockerfile

\* C16: a failed build step (docker build, docker push, Cloud Build) ends the
\* process with exit code 1, the two build paths are never both invoked, and
\* imageBuilt=true is returned only after the build and, locally, the push
\* have succeeded.
C16_BuildFailureIsFatal ==
    /\ [][\A buildOk, pushOk \in BOOLEAN :
            BuildStep(buildOk, pushOk) =>
                IF buildOk /\ (buildLocal => pushOk)
                THEN prepared' = <<[imageBuilt |-> TRUE]>> /\ exits' = <<>>
                ELSE prepared' = <<>> /\ exits' = <<1>> /\ dpc' = "exited"]_vars
    /\ [](~(Called("docker build") /\ Called("builds submit")))
    /\ [](prepared # <<>> /\ prepared[1].imageBuilt =>
            /\ imageInRegistry
            /\ IF buildLocal THEN Called("docker build") /\ Called("docker push")
               ELSE Called("builds submit"))

\* C16 witness: the local build succeeded, the push failed, and the process
\* exited 1 without turning to Cloud Build.
C16_Witness ==
    /\ exits = <<1>>
    /\ calls[Len(calls)] = "docker push"
    /\ ~Called("builds submit")
    /\ prepared = <<>>

\* The last createOrUpdateJob() call that returned.
LastReconcile == reconciled[Len(reconciled)]

\* C17: createOrUpdateJob() issues a create call and returns true exactly when
\* its describe query finds no job, an update call and false exactly when it
\* finds one, never both calls, and exits 1 when the create or update fails.
C17_CreateIffAbsent ==
    jobCalls # <<>> =>
        /\ Len(jobCalls) = 2
        /\ jobCalls[1].cmd = "jobs describe"
        /\ jobCalls[2].cmd = IF jobCalls[1].ok THEN "jobs update" ELSE "jobs create"
        /\ IF jobCalls[2].ok
           THEN /\ exits = <<>>
                /\ reconciled # <<>>
                /\ LastReconcile.found = jobCalls[1].ok
                /\ LastReconcile.created = ~jobCalls[1].ok
           ELSE exits = <<1>>

\* C17 witness: a call created the job and the next call found and updated it.
C17_Witness ==
    /\ Len(reconciled) = 2
    /\ reconciled[1].created /\ ~reconciled[1].found
    /\ ~reconciled[2].created /\ reconciled[2].found
    /\ jobCalls = <<[cmd |-> "jobs describe", ok |-> TRUE],
                    [cmd |-> "jobs update", ok |-> TRUE]>>

\* C18: of two createOrUpdateJob() calls in a row with the same configuration,
\* the second is an update that returns false and leaves the job as the first
\* left it; the first was an update returning false if the job existed, and
\* returned true if it did not.
C18_ReconcileIdempotent ==
    (Len(reconciled) = 2 /\ reconciled[1].spec = reconciled[2].spec) =>
        /\ reconciled[2].found /\ ~reconciled[2].created
        /\ reconciled[2].after = reconciled[1].after
        /\ remoteJob = reconciled[1].after
        /\ reconciled[1].created = ~reconciled[1].found

\* C18 witness: an existing job was reconciled twice with one configuration.
C18_Witness ==
    /\ Len(reconciled) = 2
    /\ reconciled[1].spec = reconciled[2].spec
    /\ reconciled[1].found /\ ~reconciled[1].created
    /\ reconciled[2].found /\ ~reconciled[2].created
    /\ remoteJob # <<StaleJob>>

\* The job a configuration describes: each field at its configured value or,
\* when not configured, at its default.
Desired(spec) ==
    [image |-> CurrentImage,
     env |-> {"GOOGLE_CLOUD_PROJECT"} \cup spec.env,
     memory |-> IF spec.memory = "undefined" THEN DEFAULT_MEMORY ELSE spec.memory,
     cpu |-> IF spec.cpu = "undefined" THEN DEFAULT_CPU ELSE spec.cpu,
     timeout |-> IF spec.timeout = NoValue THEN DEFAULT_TIMEOUT ELSE spec.timeout,
     maxRetries |-> 0,
     parallelism |-> IF spec.parallelism = NoValue THEN DEFAULT_PARALLELISM
                     ELSE spec.parallelism,
     secrets |-> spec.secrets,
     serviceAccount |-> IF spec.serviceAccount = "" THEN "default"
                        ELSE spec.serviceAccount]

\* C19: after createOrUpdateJob() has updated an existing job, every field of
\* the job has the value of the configuration or its default, whatever the job
\* was before.
C19_UpdateReassertsEveryField ==
    (reconciled # <<>> /\ LastReconcile.found) =>
        LastReconcile.after = <<Desired(LastReconcile.spec)>>

\* C21: for every argument vector given to execute(), gcloud accepts the
\* assignment, and the arguments the container's entry point reconstructs from
\* JOB_ARGV are the launched ones, in order, whatever characters they contain.
C21_ArgvRoundTrip ==
    /\ jobEnv # <<>> => jobEnv[1].accepted
    /\ received # <<>> => received[1] = [threw |-> FALSE, argv |-> argv]

\* The hexadecimal characters.
Hex == {HexDigits[i] : i \in 1..16}

\* C22: the tag hashDirectory() returns depends only on the (relative path,
\* bytes) pairs under the directory, not on the order the directory was
\* enumerated in, and is exactly 12 hexadecimal characters long.
C22_HashDeterministic ==
    /\ \A i, j \in 1..Len(hashed) :
          hashed[i].tree = hashed[j].tree => hashed[i].tag = hashed[j].tag
    /\ \A i \in 1..Len(hashed) : hashed[i].tag \in [1..12 -> Hex]

\* C22 witness: one tree of two files, one of them in a sub-directory, was
\* hashed twice, enumerated in two different orders.
C22_Witness ==
    /\ Len(hashed) = 2
    /\ hashed[1].tree = hashed[2].tree
    /\ hashed[1].listing # hashed[2].listing
    /\ \E f \in tree : f.path = <<"a", "/", "b">>
    /\ hashed[1].tag = hashed[2].tag

\* C23: two trees that differ in a relative path or in a file's bytes, trees
\* that differ only by renames included, feed different bytes to the hash
\* (which, the digest being collision-free, is what gives them different tags).
C23_ChangeChangesTag ==
    \A i, j \in 1..Len(hashed) :
        hashed[i].tree # hashed[j].tree =>
            hashed[i].stream # hashed[j].stream

\* What prepareImage() met allows the local build: it was requested, docker is
\* installed, and the daemon ran at once or after the operator had it started
\* and it reported ready in time.
LocalAllowed(in) ==
    /\ in.requested
    /\ in.installed
    /\ \/ in.running
       \/ in.tty /\ in.choice = "start" /\ in.started /\ in.ready

\* prepareImage() got past its gcloud check.
PastPreflight == met # <<>> /\ met[1].gcloud

\* C24: when a build is needed, docker builds exactly if the local build was
\* requested, docker is installed and its daemon was seen running, at once or
\* after a start the operator chose, that succeeded and was ready in time;
\* Cloud Build builds in every other case. With docker absent the daemon is
\* not probed, and after a failed start readiness is not waited for.
C24_LocalOnlyWhenDaemonRuns ==
    /\ Called("write Dockerfile") =>
          /\ PastPreflight
          /\ Called("docker build") <=> LocalAllowed(met[1])
          /\ Called("builds submit") <=> ~LocalAllowed(met[1])
    /\ (met # <<>> /\ ~met[1].installed) =>
          ~Called("docker info") /\ ~Called("start docker")
    /\ (met # <<>> /\ ~met[1].started) => ~Called("wait for docker")

\* C24 witness: the operator had the daemon started, it was not ready in
\* time, and Cloud Build built the image.
C24_Witness ==
    /\ PastPreflight
    /\ met[1].choice = "start" /\ met[1].started /\ ~met[1].ready
    /\ Called("wait for docker")
    /\ Called("builds submit")
    /\ prepared = <<[imageBuilt |-> TRUE]>>

\* C25: a prepareImage() that got past its gcloud check prompts the operator
\* exactly if the local build was requested, docker is installed, its daemon
\* is not running and stdin is a TTY; no other call prompts.
C25_PromptsOnlyInteractively ==
    /\ PastPreflight =>
          (Called("prompt") <=>
              /\ met[1].requested /\ met[1].installed
              /\ ~met[1].running /\ met[1].tty)
    /\ ~PastPreflight => ~Called("prompt")

\* C25 witness: the operator was prompted, chose Cloud Build, and Cloud Build
\* built the image.
C25_Witness ==
    /\ PastPreflight
    /\ Called("prompt")
    /\ met[1].choice = "cloud-build"
    /\ ~Called("start docker")
    /\ Called("builds submit")

\* The operator was prompted and cancelled.
Cancelled == met # <<>> /\ Called("prompt") /\ met[1].choice = "cancel"

\* C26: when the operator cancels the prompt the process exits with code 0,
\* and nothing but the probes and the prompt has happened: no isolate, no
\* hash, no registry query, no Dockerfile, no build, no push.
C26_CancelExitsZero ==
    /\ Cancelled =>
          /\ exits = <<0>>
          /\ dpc = "exited"
          /\ calls = <<"gcloud --version", "docker --version", "docker info", "prompt">>
          /\ ~dockerfile
          /\ prepared = <<>>
    /\ 0 \in {exits[i] : i \in 1..Len(exits)} => Cancelled

\* C26 witness: the operator cancelled the prompt and the process has exited.
C26_Witness ==
    /\ Cancelled
    /\ met[1].tty /\ ~met[1].running
    /\ exits = <<0>>
    /\ calls[Len(calls)] = "prompt"

\* C27: the interrupt handler is registered only in a non-async execute()
\* whose log streamer has started, and it is no longer registered when the
\* call has ended: by returning, by rejecting, or by ending the process on
\* completion with success or with task failure.
C27_HandlerOnlyDuringCall ==
    /\ handlerRegistered => caller = "execute" /\ ~async /\ StreamerStarted
    /\ pc \in {"returned", "rejected", "exited"} => ~handlerRegistered

\* C30: with the async option execute() returns as soon as the execution is
\* accepted: it opens no log tail, issues no describe call, registers no
\* interrupt handler and does not end the process, and nothing of the call is
\* left running after it returned.
C30_AsyncReturnsAtOnce ==
    /\ [](caller = "execute" /\ async =>
            /\ pc \in {"start", "returned", "rejected", "exited"}
            /\ streamer = NewStreamer /\ conns = <<>> /\ streamFaults = 0
            /\ pollTimer = 0 /\ settled = <<>>
            /\ "jobs executions describe" \notin commands
            /\ ~handlerRegistered
            /\ timers = <<>> /\ stops = <<>>
            /\ pc = "returned" => exits = <<>> /\ commands = {"jobs execute --async"})
    /\ [][pc = "returned" => UNCHANGED vars]_vars
    /\ [][async /\ Launch /\ exits' = <<>> => pc' \in {"returned", "rejected"}]_vars

\* C30 witness: an async execute() has returned after the launch, the process
\* alive and nothing started.
C30_Witness ==
    /\ caller = "execute" /\ async
    /\ pc = "returned"
    /\ exits = <<>>
    /\ commands = {"jobs execute --async"}
    /\ conns = <<>> /\ pollTimer = 0 /\ ~handlerRegistered

\* createOrUpdateJob() issued a create or an update call.
JobTouched ==
    \E i \in 1..Len(jobCalls) : jobCalls[i].cmd \in {"jobs create", "jobs update"}

\* C28: in `cloud run`, when the image of the content tag was found in the
\* registry, nothing is built and the job is neither created nor updated
\* before the execution is started; the job is created or updated only when
\* a new image was built.
C28_ExistingImageSkipsDeploy ==
    /\ (prepared # <<>> /\ ~prepared[1].imageBuilt) =>
          /\ \A c \in BuildCalls : ~Called(c)
          /\ ~JobTouched
    /\ JobTouched => prepared # <<>> /\ prepared[1].imageBuilt

\* The script name holds a letter, of either case.
HoldsLetter(name) == \E i \in 1..Len(name) : name[i] \in Letters \cup {"B"}

\* A valid job name: 1 to 63 lowercase letters, digits and hyphens, a letter
\* first, no hyphen last, no two hyphens in a row.
ValidJobName(name) ==
    /\ Len(name) \in 1..63
    /\ \A i \in 1..Len(name) : name[i] \in Letters \cup Digits \cup {"-"}
    /\ name[1] \in Letters
    /\ name[Len(name)] # "-"
    /\ \A i \in 1..(Len(name) - 1) : ~(name[i] = "-" /\ name[i + 1] = "-")

\* C29: deriveJobResourceName() throws exactly for a script name in which
\* sanitization leaves no letter; otherwise it returns a valid job name, and
\* applied to that name it returns it unchanged.
C29_DerivedNameValid ==
    /\ derived # <<>> =>
          /\ derived[1].threw <=> ~HoldsLetter(scriptName)
          /\ ~derived[1].threw => ValidJobName(derived[1].name)
    /\ Len(derived) = 2 => derived[2] = derived[1]

\* C29 witness: a script name over the length limit, with digits in front and
\* a hyphen where the limit cuts, was cut to a name shorter than the limit,
\* and the second application returned the same name.
C29_Witness ==
    /\ Len(scriptName) > MAX_JOB_NAME_LENGTH
    /\ scriptName[1] = "1"
    /\ Len(derived) = 2
    /\ Len(derived[1].name) < MAX_JOB_NAME_LENGTH
    /\ derived[2] = derived[1]

\* The drain delay of execute() is running.
DrainPending == \E i \in 1..Len(timers) : timers[i].kind = "drain"

\* The positions execute() passes through, each with the ones that may follow.
CompletionOrder ==
    {<<"start", "polling">>, <<"start", "exited">>, <<"start", "rejected">>,
     <<"start", "returned">>, <<"polling", "draining">>, <<"polling", "rejected">>,
     <<"draining", "stopping">>, <<"draining", "exited">>, <<"stopping", "exited">>}

\* C31: in an execute() call with no interrupt the order is fixed: the poller
\* resolves, then the drain delay runs and elapses, then stop() is called, and
\* the process exits with the final status only once that stop() has resolved;
\* the streamer is not stopped before the poller has resolved.
C31_CompletionOrder ==
    /\ [](caller = "execute" /\ sigints = 0 =>
            /\ (streamer.stopped \/ stops # <<>>) => Resolved /\ ~DrainPending
            /\ DrainPending <=> pc = "draining"
            /\ pc \in {"draining", "stopping"} => Resolved /\ ~Exited
            /\ pc = "stopping" => Len(stops) = 1 /\ stops[1].state = "pending"
            /\ (Exited /\ Resolved) =>
                  /\ Len(stops) = 1
                  /\ stops[1] = [by |-> "main", conn |-> stops[1].conn,
                                 state |-> "resolved"]
                  /\ streamer.stopped)
    /\ [][caller = "execute" /\ sigints' = 0 /\ pc' # pc =>
            <<pc, pc'>> \in CompletionOrder]_vars

\* C31 witness: an uninterrupted call waited for the poller, the drain delay
\* and the end of the log stream, and then exited 0.
C31_Witness ==
    /\ caller = "execute" /\ sigints = 0
    /\ Resolved /\ settled[1].succeeded
    /\ ~DrainPending
    /\ Len(stops) = 1 /\ stops[1].conn # 0 /\ stops[1].state = "resolved"
    /\ conns[stops[1].conn] = "closed"
    /\ exits = <<0>>

\* Stop promise k was returned to the interrupt handler.
BySignal(k) == stops[k].by = "signal"

\* The safety timeout of stop promise k is pending.
TimeoutPending(k) ==
    \E i \in 1..Len(timers) : timers[i] = [kind |-> "stop", id |-> k, ms |-> STOP_TIMEOUT]

StartingAt(notes) == {i \in 1..Len(notes) : notes[i] = "Container starting"}

\* This step emits the "container starting" notice.
EmitsStarting == StartingAt(notifications') # StartingAt(notifications)

\* C33: over any sequence of poll responses and errors the "container
\* starting" notice is emitted at most once, only by a poll whose response
\* carries no start time, and never once "Running" has been emitted.
C33_StartingNoticeOnce ==
    /\ [](Cardinality(StartingAt(notifications)) <= 1)
    /\ [][EmitsStarting =>
            /\ RunningCount = 0 /\ ~seenStart
            /\ notifications' = Append(notifications, "Container starting")
            /\ \E r \in Executions : ~CarriesStart(r) /\ PollStep(r)]_vars
    /\ [](\A i \in StartingAt(notifications) :
            \A j \in 1..Len(notifications) : notifications[j] = "Running" => i < j)

\* C33 witness: the notice was emitted once, and then polls failed and polls
\* without a start time came again before the poller resolved unstarted.
C33_Witness ==
    /\ notifications = <<"Container starting">>
    /\ hasReportedStarting /\ ~hasStarted /\ ~seenStart
    /\ Resolved /\ settled[1].startedAt = "undefined"
    /\ ~settled[1].execution.startTime

\* The log-tail connections that can still deliver events.
Live == {c \in 1..Len(conns) : conns[c] \in {"open", "ending"}}

\* C34: the LogStreamer has at most one live log-tail connection and holds
\* none that failed; at most one reconnect timer is pending, the one the
\* streamer refers to; a connection is opened only by start() or by that
\* timer firing, one at a time and never beside a live one; a stream error
\* leaves the streamer without a stream; a data batch resets the count of
\* consecutive failures.
C34_OneLiveConnection ==
    /\ [](Cardinality(Live) <= 1)
    /\ [](streamer.stream # 0 => conns[streamer.stream] = "open")
    /\ [](streamer.timeouts = IF streamer.reconnectTimer THEN 1 ELSE 0)
    /\ [](streamer.reconnectTimer => streamer.stream = 0 /\ Live = {})
    /\ [][conns' # conns /\ Len(conns') # Len(conns) =>
            /\ Launch \/ (Reconnect /\ streamer.reconnectTimer)
            /\ conns' = Append(conns, "open")
            /\ Live = {}
            /\ streamer'.stream = Len(conns')]_vars
    /\ [][StreamError => streamer'.stream = 0 /\ Len(conns') = Len(conns)]_vars
    /\ [][StreamData => streamer'.consecutiveFailures = 0]_vars

\* C34 witness: the log tail failed twice, the second time on the connection
\* that the reconnect timer had opened, and a timer is pending again.
C34_Witness ==
    /\ Len(conns) >= 2
    /\ conns[1] = "errored" /\ conns[2] = "errored"
    /\ streamer.reconnectTimer /\ streamer.timeouts = 1
    /\ streamer.consecutiveFailures = 1
    /\ streamer.stream = 0

\* The rejection of check() for an aborted signal.
AbortOutcome == [kind |-> "reject", reason |-> "AbortError"]

\* C35: a poll that fires with the signal aborted issues no describe call and
\* rejects the poller with the abort outcome, which is none of the other three
\* outcomes; no poll follows it; aborting the signal does not by itself touch
\* the poller, which learns of it when its next poll fires.
C35_AbortObservedAtPoll ==
    /\ [][hasSignal /\ aborted => ~PollCheck]_vars
    /\ [][hasSignal /\ aborted /\ pollTimer > 0 /\ pollerVars' # pollerVars =>
            /\ settled' = <<AbortOutcome>>
            /\ pollTimer' = 0
            /\ commands' = commands]_vars
    /\ [](settled # <<>> /\ settled[1] = AbortOutcome =>
            /\ hasSignal /\ aborted
            /\ pollTimer = 0 /\ Len(settled) = 1
            /\ ~Resolved /\ ~RejectedForErrors)
    /\ [][settled # <<>> /\ settled[1] = AbortOutcome =>
            UNCHANGED <<pollerVars, commands>>]_vars
    /\ [][aborted' # aborted => UNCHANGED <<pollerVars, commands, exits>>]_vars

\* C35 witness: the signal was aborted between two polls, after a describe
\* call had failed, and the next poll rejected with the abort outcome.
C35_Witness ==
    /\ settled = <<AbortOutcome>>
    /\ aborted
    /\ consecutiveErrors = 1
    /\ commands = {"jobs executions describe"}
    /\ pollTimer = 0

\* LogStreamer.stop() has been called.
StopCalled == stops # <<>>

\* C36: once stop() has been called no log-tail connection is opened: the
\* call leaves the streamer stopped with no reconnect timer pending, and a
\* stream error that arrives afterwards changes nothing in the streamer.
C36_NoConnectionAfterStop ==
    /\ [][StopCalled => Len(conns') = Len(conns)]_vars
    /\ [](StopCalled =>
            /\ streamer.stopped /\ streamer.stream = 0
            /\ ~streamer.reconnectTimer /\ streamer.timeouts = 0)
    /\ [][StopCalled /\ StreamError => streamer' = streamer]_vars
    /\ [][StopCalled' /\ ~StopCalled =>
            streamer' = [streamer EXCEPT !.stopped = TRUE, !.stream = 0,
                                         !.reconnectTimer = FALSE, !.timeouts = 0]]_vars

\* C36 witness: the stream that a reconnect had opened was asked to end by
\* stop() and then failed; nothing was scheduled.
C36_Witness ==
    /\ StopCalled
    /\ stops[1].conn >= 2
    /\ conns[stops[1].conn] = "errored"
    /\ ~Exited
    /\ streamer.timeouts = 0

\* The timestamp of a printed entry.
stamp(p) == delivered[p.batch][p.at]

\* Timestamp t is earlier than timestamp u.
Earlier(t, u) ==
    \/ t.seconds < u.seconds
    \/ t.seconds = u.seconds /\ t.nanos < u.nanos

\* C37: the entries of every delivered batch are all printed, batch after
\* batch in arrival order; within a batch they are printed in ascending order
\* of (seconds, nanos), and entries with equal timestamps in delivery order.
C37_BatchPrintedInOrder ==
    /\ Len(printed) = Len(flatten(delivered))
    /\ \A b \in 1..Len(delivered) : \A i \in 1..Len(delivered[b]) :
            \E k \in 1..Len(printed) : printed[k] = [batch |-> b, at |-> i]
    /\ \A k \in 1..(Len(printed) - 1) :
            LET p == printed[k]
                q == printed[k + 1]
            IN  \/ p.batch < q.batch
                \/ /\ p.batch = q.batch
                   /\ \/ Earlier(stamp(p), stamp(q))
                      \/ stamp(p) = stamp(q) /\ p.at < q.at

\* The probes of one call at most: the first one and one per interval of the
\* timeout.
ProbeLimit == 1 + (timeoutMs + intervalMs - 1) \div intervalMs

Settled == settled # <<>>

\* C39: the poller settles once: its promise is resolved or rejected at most
\* one time; once it is settled no poll timer is pending and no poll runs, so
\* no describe call is issued; at most one poll timer is ever pending.
C39_SettlesOnce ==
    /\ [](Len(settled) <= 1)
    /\ [](pollTimer <= 1)
    /\ [](Settled => pollTimer = 0)
    /\ [][Settled => ~PollCheck /\ ~PollAborted /\ UNCHANGED pollerVars]_vars
    /\ [][Len(settled') > Len(settled) =>
            pollTimer = 1 /\ pollTimer' = 0 /\ (PollCheck \/ PollAborted)]_vars

\* C39 witness: the poller was rejected at the error cap, after a poll that
\* had succeeded, and no timer is left.
C39_Witness ==
    /\ settled = <<[kind |-> "reject", reason |-> "errors"]>>
    /\ consecutiveErrors = 10
    /\ hasStarted
    /\ pollTimer = 0

\* The execution is in a terminal state: it has a completion time, or its
\* "Completed" condition has succeeded or failed.
Terminal(e) ==
    \/ e.completionTime
    \/ \E i \in 1..Len(e.conditions) :
          /\ e.conditions[i].type = "Completed"
          /\ e.conditions[i].state \in {"CONDITION_SUCCEEDED", "CONDITION_FAILED"}

\* The describe outcomes that return an execution in a terminal state.
TerminalOutcomes == {r \in Executions : Terminal(parseExecution(r)[1])}

\* A poll whose describe call returns a terminal state.
TerminalPoll == \E r \in TerminalOutcomes : PollStep(r)

\* pollExecution() has been called.
PollerStarted == caller = "direct" \/ pc = "polling"

\* C40: the poller settles only on a terminal state, at the error cap or on
\* an aborted signal, and until then one poll is always scheduled; a poll that
\* gets a terminal state resolves the poller (a poller without a callback
\* that had not reported the start takes one more poll); with poll timers that
\* fire, if from some point on every describe call returns a terminal state, a
\* pending poller settles (or the process exits first).
C40_PollLoopEndsAndIsLive ==
    /\ [](Settled =>
            \/ Resolved /\ Terminal(settled[1].execution)
            \/ RejectedForErrors /\ ErrorCapReached(consecutiveErrors)
            \/ settled[1] = AbortOutcome /\ hasSignal /\ aborted)
    /\ [](PollerStarted /\ ~Settled => pollTimer = 1)
    /\ [][TerminalPoll =>
            \/ Resolved'
            \/ /\ ~hasCallback /\ ~hasStarted /\ ~hasReportedStarting
               /\ hasReportedStarting' /\ pollTimer' = 1
               /\ ~ErrorCapReached(consecutiveErrors')]_vars
    /\ (<>[][PollCheck => TerminalPoll]_vars) => ((pollTimer > 0) ~> (Settled \/ Exited))

\* C40 witness: a poller without a callback resolved on a terminal state of
\* an execution that never reported its start, one poll after the first.
C40_Witness ==
    /\ caller = "direct" /\ ~hasCallback
    /\ Resolved
    /\ hasReportedStarting /\ ~hasStarted
    /\ settled[1].execution.completionTime
    /\ pollTimer = 0

====
